---- MODULE Spec2Model ----
(***************************************************************************)
(* Actor / learner / evaluator orchestration of elegantrl/train/run.py and *)
(* the step accounting of elegantrl/train/evaluator.py.                    *)
(*                                                                         *)
(* Every process (Learner, Worker, EvaluatorProc) is a little state        *)
(* machine with a program counter; every Pipe is a FIFO sequence.  A       *)
(* message is put on / taken off a pipe atomically (the payloads are       *)
(* pickled handles of a few hundred bytes, written with one write()).      *)
(* os.name is taken to be different from 'nt' (the forkserver branch).     *)
(***************************************************************************)
EXTENDS Integers, Sequences, FiniteSets, TLC

(* ------------------------------------------------------------------ *)
(* Bounds of the model and configuration values                         *)
(* ------------------------------------------------------------------ *)

\* How many messages the Learner may have sent to its Evaluator without having
\* read the matching flag before the scheduler lets the Evaluator catch up.
MaxAhead == 2
\* The same, in the multi-learner topology and where an environment may raise.
MaxAheadRing == 1
\* Largest args.break_step tried, and in those two.
MaxBreakStep == 4
MaxBreakStepRing == 0
\* Largest args.state_dim tried (the environment's own state_dim is EnvStateDim).
MaxStateDim == 3
\* Messages an arbitrary sender may hand to an EvaluatorProc run in isolation.
MaxMsgs == 3
\* Largest `steps` field such a sender uses.
MaxSteps == 2
\* Copies the arbitrary peer learners may put on their ring pipes, in all.
MaxRingCopies == 4
\* Messages an arbitrary sender may hand to the Workers run in isolation.
MaxSnapshots == 3
\* Largest args.horizon_len tried in single-process training.
MaxHorizonLen == 2

\* env.state_dim of the environment build_env returns.
EnvStateDim == 2
\* args.num_workers, args.num_envs, args.horizon_len.
NumWorkers == 2
NumEnvs == 2
HorizonLen == 1
\* len(args.learner_gpu_ids), args.num_workers and args.num_envs in the
\* multi-learner topology.
NumGpus == 3
RingWorkers == 1
RingEnvs == 1
\* args.eval_per_step and args.eval_record_step.
EvalPerStep == 2
EvalRecordStep == 0

\* Python's None (policies are version numbers >= 0).
None == -1

VARIABLES
    args,           \* Config: num_workers, num_envs, horizon_len, break_step, num_gpus,
                    \*         if_off_policy, if_save_buffer
    state_dim,      \* [learner -> Learner's state_dim (run.py:295)]
    lpc,            \* [learner -> where Learner.run is]
    li,             \* [learner -> index of the for loop it is in]
    if_train,       \* [learner -> Learner's if_train]
    policy,         \* [learner -> version of agent.act (number of update_net calls)]
    states,         \* [learner -> buffer_items_tensor: the states tensor]
    last_state,     \* [learner -> agent.last_state of the Learner]
    updates,        \* [learner -> buffers handed to buffer.update / update_net, in order]
    saved,          \* [learner -> what the Learner has written to cwd: "agent", "history"]
    worker_pipes,   \* [learner -> [worker -> Pipe learner -> worker]]
    learner_pipe,   \* [learner -> Pipe workers -> learner]
    learners_pipe,  \* [learner k -> Pipe written by learner k, read by the others]
    eval_msgs,      \* [learner -> evaluator_pipe, direction Learner -> EvaluatorProc]
    eval_flags,     \* [learner -> evaluator_pipe, direction EvaluatorProc -> Learner]
    wpc,            \* [learner -> [worker -> where Worker.run is]]
    wact,           \* [learner -> [worker -> agent.act of the Worker]]
    epc,            \* [learner -> where EvaluatorProc.run is]
    e_if_train,     \* [learner -> EvaluatorProc's if_train]
    evaluator,      \* [learner -> the Evaluator object: total_step, eval_step_counter]
    stop_file,      \* os.path.exists(f"{cwd}/stop")
    joined,         \* the Orchestrator's joins have returned
    hist            \* [learner -> history counters used to state the properties]

vars == <<args, state_dim, lpc, li, if_train, policy, states, last_state, updates,
          saved, worker_pipes, learner_pipe, learners_pipe, eval_msgs, eval_flags,
          wpc, wact, epc, e_if_train, evaluator, stop_file, joined, hist>>

learner_vars == <<state_dim, lpc, li, if_train, policy, states, last_state, updates, saved>>
worker_vars == <<wpc, wact>>
evaluator_vars == <<epc, e_if_train, evaluator>>

(* ------------------------------------------------------------------ *)
(* Values derived from the configuration                                *)
(* ------------------------------------------------------------------ *)

Min(a, b) == IF a <= b THEN a ELSE b
Max(a, b) == IF a >= b THEN a ELSE b

num_learners == Max(1, args.num_gpus)
num_communications == num_learners - 1
num_workers == args.num_workers
num_envs == args.num_envs
horizon_len == args.horizon_len
break_step == args.break_step
num_steps_per_env == args.horizon_len * args.num_workers * args.num_envs
num_steps == args.horizon_len * args.num_workers
num_seqs == args.num_envs * args.num_workers * num_learners

Learners == 0 .. (num_learners - 1)
Workers == 0 .. (num_workers - 1)

(* ------------------------------------------------------------------ *)
(* Tensors: a shape and, per column (sequence), the feature vector     *)
(* ------------------------------------------------------------------ *)

\* th.zeros / th.empty: every feature of every column is ZERO.
ZERO == <<>>
Zeros(shape, ncols, dim) ==
    [shape |-> shape, data |-> [c \in 0 .. (ncols - 1) |-> [k \in 1 .. dim |-> ZERO]]]

\* No tensor yet.
NoTensor == [shape |-> <<>>, data |-> <<>>]

Front(s) == SubSeq(s, 1, Len(s) - 1)
\* tensor[:, buf_i:buf_j].shape (axis = 2) or tensor[buf_i:buf_j].shape (axis = 1)
SliceShape(shape, axis, i, j) ==
    [k \in 1 .. Len(shape) |-> IF k = axis THEN j - i ELSE shape[k]]

\* The assignment of a received item into the columns [i, j) of a tensor.
AssignSlice(tensor, axis, i, j, item) ==
    LET target_shape == SliceShape(tensor.shape, axis, i, j)
        source_shape == item.shape
        min_dim == Min(source_shape[Len(source_shape)], target_shape[Len(target_shape)])
        InSlice(c) == i <= c /\ c < j
    IN  IF source_shape = target_shape
        THEN [tensor EXCEPT !.data =
                [c \in DOMAIN tensor.data |->
                    IF InSlice(c) THEN item.data[c - i] ELSE tensor.data[c]]]
        ELSE IF /\ Len(source_shape) = Len(target_shape)
                /\ Front(source_shape) = Front(target_shape)
        THEN [tensor EXCEPT !.data =
                [c \in DOMAIN tensor.data |->
                    IF InSlice(c)
                    THEN [k \in 1 .. Len(tensor.data[c]) |->
                            IF k <= min_dim THEN item.data[c - i][k]
                            ELSE tensor.data[c][k]]
                    ELSE tensor.data[c]]]
        ELSE tensor

\* t[:, :n]
Columns(tensor, n) ==
    [shape |-> SliceShape(tensor.shape, 2, 0, n),
     data |-> [c \in 0 .. (n - 1) |-> tensor.data[c]]]

\* agent.explore_env(env, horizon_len) of worker w of learner l with policy
\* version v: the states of the batch, and agent.last_state afterwards.
ExploreStates(l, w, v) ==
    [shape |-> <<horizon_len, num_envs, EnvStateDim>>,
     data |-> [e \in 0 .. (num_envs - 1) |-> [k \in 1 .. EnvStateDim |-> <<l, w, e, v>>]]]
ExploreLastState(l, w, v) ==
    [shape |-> <<num_envs, EnvStateDim>>,
     data |-> [e \in 0 .. (num_envs - 1) |-> [k \in 1 .. EnvStateDim |-> <<l, w, e, v>>]]]

buf_i(worker_id) == num_envs * worker_id
buf_j(worker_id) == num_envs * (worker_id + 1)
\* A ring that is walked the other way round.
other_learner_id_back(learner_id, shift_id) ==
    (learner_id + num_learners - shift_id - 1) % num_learners

other_learner_id(learner_id, shift_id) == (learner_id + shift_id + 1) % num_learners
ring_buf_i(shift_id) == num_envs * num_workers * (shift_id + 1)
ring_buf_j(shift_id) == num_envs * num_workers * (shift_id + 2)

(* ------------------------------------------------------------------ *)
(* Initial state: every process has been started and stands at the     *)
(* head of its loop                                                    *)
(* ------------------------------------------------------------------ *)

\* Evaluator.__init__
NewEvaluator ==
    [total_step |-> 0, eval_step_counter |-> -EvalPerStep, episodes |-> 0,
     eval_per_step |-> EvalPerStep, recorder_step |-> EvalRecordStep]

NewHist ==
    [round |-> 1,           \* iteration of the Learner's while loop
     actor_sent |-> 0,      \* snapshots sent to workers
     sentinels |-> [w \in Workers |-> 0],  \* None sent to each worker
     snapshot_after_sentinel |-> FALSE,    \* a snapshot followed a None
     w_snapshots |-> [w \in Workers |-> 0],  \* non-null snapshots each worker received
     w_sent |-> [w \in Workers |-> 0],       \* reports each worker sent
     got_none |-> [w \in Workers |-> FALSE], \* the worker received a None
     reports_from |-> [w \in Workers |-> 0], \* reports of each worker the Learner received
     mismatched |-> FALSE,  \* a received payload had not the shape of its segment
     ring_other_round |-> FALSE,  \* a ring receive got a copy sent in another round
     env_errors |-> [w \in Workers |-> 0],   \* explorations in which the environment raised
     explores |-> 0,        \* single process: explore_env calls
     buffer_updates |-> 0,  \* single process: buffer.update / buffer[:] = ...
     evaluations |-> 0,     \* single process: evaluate_and_save calls
     marker_read |-> FALSE, \* single process: a loop test found the stop marker
     last_avg_r |-> 0,      \* avg_r of the last evaluation of evaluate_and_save
     avg_rs |-> {},         \* the average returns of its successful evaluations
     step_calls |-> 0,      \* get_rewards_and_steps: calls of env.step
     ep_raised |-> FALSE,   \* its last call of reset / actor / step raised
     ep_short |-> FALSE,    \* its last env.step returned fewer than 4 values
     last_failed |-> FALSE, \* its last evaluation had no valid episode
     last_eval_step |-> 0,  \* sum of the steps passed to it up to that evaluation
     policy_unpolled |-> FALSE, \* a message sent while no flag was pending carried a policy
     modes |-> <<>>,        \* the training functions train_agent has called
     reports |-> 0,         \* worker reports received
     msgs |-> 0,            \* messages sent to the Evaluator
     flags_read |-> 0,      \* flags the Learner received
     read_false |-> FALSE,  \* the Learner received a false flag
     read_true_after_false |-> FALSE,
     batch |-> [w \in Workers |-> NoTensor],  \* what each worker sent last
     processed |-> 0,       \* messages EvaluatorProc handled in its main loop
     steps_sum |-> 0,       \* sum of their `steps`
     null_processed |-> 0,  \* those without a policy
     null_episodes |-> 0,   \* evaluation episodes run for a message without policy
     flags_sent |-> 0,      \* flags EvaluatorProc sent
     sent_false |-> FALSE,  \* one of them was false
     sent_true_after_false |-> FALSE]

\* The configurations tried: `gpus` is len(args.learner_gpu_ids), `dims` the
\* values of the Learner's state_dim after lines 245-260 (env.state_dim when
\* the temporary environment was built, the configured one otherwise).
InitConfig(gpus, workers, envs, break_steps, dims, buffer_kinds, save_buffers) ==
    /\ args \in [num_workers : {workers}, num_envs : {envs}, horizon_len : {HorizonLen},
                 break_step : break_steps, num_gpus : {gpus},
                 if_off_policy : buffer_kinds, if_save_buffer : save_buffers]
    /\ \E d \in dims : state_dim = [l \in Learners |-> d]

\* `learner_pcs` says where each Learner stands.
InitProcessesWith(learner_pcs, evaluators) ==
    /\ lpc = learner_pcs
    /\ li = [l \in Learners |-> 0]
    /\ if_train = [l \in Learners |-> TRUE]
    /\ policy = [l \in Learners |-> 0]
    /\ states = [l \in Learners |->
                    Zeros(<<horizon_len, num_seqs, state_dim[l]>>, num_seqs, state_dim[l])]
    /\ last_state = [l \in Learners |->
                    Zeros(<<num_seqs, state_dim[l]>>, num_seqs, state_dim[l])]
    /\ updates = [l \in Learners |-> [n |-> 0, buffer |-> NoTensor]]
    /\ saved = [l \in Learners |-> {}]
    /\ worker_pipes = [l \in Learners |-> [w \in Workers |-> <<>>]]
    /\ learner_pipe = [l \in Learners |-> <<>>]
    /\ learners_pipe = [l \in Learners |-> <<>>]
    /\ eval_msgs = [l \in Learners |-> <<>>]
    /\ eval_flags = [l \in Learners |-> <<>>]
    /\ wpc = [l \in Learners |-> [w \in Workers |-> "recv"]]
    /\ wact = [l \in Learners |-> [w \in Workers |-> 0]]
    /\ epc = [l \in Learners |-> "recv"]
    /\ e_if_train = [l \in Learners |-> TRUE]
    /\ evaluator = evaluators
    /\ stop_file = FALSE
    /\ joined = FALSE
    /\ hist = [l \in Learners |-> NewHist]

InitProcessesAt(learner_pcs) ==
    InitProcessesWith(learner_pcs, [l \in Learners |-> NewEvaluator])

InitProcesses(learner_pc) == InitProcessesAt([l \in Learners |-> learner_pc])

\* train_agent_multiprocessing: one Learner, its Workers, one EvaluatorProc.
Init ==
    /\ InitConfig(0, NumWorkers, NumEnvs, 0 .. MaxBreakStep, 1 .. MaxStateDim, BOOLEAN, BOOLEAN)
    /\ InitProcesses("send_actor")

(* ------------------------------------------------------------------ *)
(* Learner.run                                                         *)
(* ------------------------------------------------------------------ *)

Bump(l, field) == [hist EXCEPT ![l][field] = @ + 1]

\* for send_pipe in self.send_pipes: send_pipe.send(actor)
\* A Learner that takes the snapshot once, before the loop.
SnapshotFirst(l) == 0

\* Lines 319-320: actor = agent.act, taken at the top of every round.
SnapshotSent(l) == policy[l]

LearnerSendActor(l) ==
    /\ lpc[l] = "send_actor"
    /\ worker_pipes' = [worker_pipes EXCEPT ![l][li[l]] = Append(@, SnapshotSent(l))]
    /\ IF li[l] + 1 < num_workers
       THEN /\ li' = [li EXCEPT ![l] = @ + 1]
            /\ lpc' = lpc
       ELSE /\ li' = [li EXCEPT ![l] = 0]
            /\ lpc' = [lpc EXCEPT ![l] = "recv_worker"]
    /\ hist' = [hist EXCEPT
            ![l].actor_sent = @ + 1,
            ![l].snapshot_after_sentinel = @ \/ hist[l].sentinels[li[l]] > 0]
    /\ UNCHANGED <<args, state_dim, if_train, policy, states, last_state, updates, saved,
                   learner_pipe, learners_pipe, eval_msgs, eval_flags, worker_vars,
                   evaluator_vars, stop_file, joined>>

\* A gather that goes on with half of the reports.
GatherCountHalf == num_workers \div 2

\* A gather that stops one report short.
GatherCountShort == num_workers - 1

\* Line 326: for _ in range(num_workers)
GatherCount == num_workers

\* Where the Learner goes once the gather loop is over.
AfterGather == IF num_communications > 0 THEN "ring_send" ELSE "update"

\* for _ in range(num_workers): worker_id, buffer_items, last_state = recv()
LearnerRecvWorker(l) ==
    /\ lpc[l] = "recv_worker"
    /\ learner_pipe[l] # <<>>
    /\ LET msg == Head(learner_pipe[l])
           worker_id == msg[1]
       IN  /\ states' = [states EXCEPT ![l] =
                    AssignSlice(@, 2, buf_i(worker_id), buf_j(worker_id), msg[2])]
           /\ last_state' = [last_state EXCEPT ![l] =
                    AssignSlice(@, 1, buf_i(worker_id), buf_j(worker_id), msg[3])]
    /\ learner_pipe' = [learner_pipe EXCEPT ![l] = Tail(@)]
    /\ IF li[l] + 1 < GatherCount
       THEN /\ li' = [li EXCEPT ![l] = @ + 1]
            /\ lpc' = lpc
       ELSE /\ li' = [li EXCEPT ![l] = 0]
            /\ lpc' = [lpc EXCEPT ![l] = AfterGather]
    /\ hist' = [hist EXCEPT
            ![l].reports = @ + 1,
            ![l].reports_from[Head(learner_pipe[l])[1]] = @ + 1,
            ![l].mismatched = @ \/
                LET msg == Head(learner_pipe[l])
                IN  \/ msg[2].shape #
                        SliceShape(states[l].shape, 2, buf_i(msg[1]), buf_j(msg[1]))
                    \/ msg[3].shape #
                        SliceShape(last_state[l].shape, 1, buf_i(msg[1]), buf_j(msg[1]))]
    /\ UNCHANGED <<args, state_dim, if_train, policy, updates, saved, worker_pipes,
                   learners_pipe, eval_msgs, eval_flags, worker_vars, evaluator_vars,
                   stop_file, joined>>

\* for shift_id in range(num_communications): learners_pipe[learner_id][0].send(...)
LearnerRingSend(l) ==
    /\ lpc[l] = "ring_send"
    /\ learners_pipe' = [learners_pipe EXCEPT ![l] =
            Append(@, Columns(states[l], num_envs * num_workers))]
    /\ IF li[l] + 1 < num_communications
       THEN /\ li' = [li EXCEPT ![l] = @ + 1]
            /\ lpc' = lpc
       ELSE /\ li' = [li EXCEPT ![l] = 0]
            /\ lpc' = [lpc EXCEPT ![l] = "ring_recv"]
    /\ UNCHANGED <<args, state_dim, if_train, policy, states, last_state, updates, saved,
                   worker_pipes, learner_pipe, eval_msgs, eval_flags, worker_vars,
                   evaluator_vars, stop_file, joined, hist>>

\* The policy version (the round, less one) a ring copy was gathered with.
CopyVersion(copy) == copy.data[0][1][4]

\* for shift_id in range(num_communications): learners_pipe[_learner_id][1].recv()
LearnerRingRecv(l) ==
    /\ lpc[l] = "ring_recv"
    /\ LET shift_id == li[l]
           _learner_id == other_learner_id(l, shift_id)
       IN  /\ learners_pipe[_learner_id] # <<>>
           /\ states' = [states EXCEPT ![l] =
                    AssignSlice(@, 2, ring_buf_i(shift_id), ring_buf_j(shift_id),
                                Head(learners_pipe[_learner_id]))]
           /\ learners_pipe' = [learners_pipe EXCEPT ![_learner_id] = Tail(@)]
           /\ hist' = [hist EXCEPT ![l].ring_other_round =
                    @ \/ CopyVersion(Head(learners_pipe[_learner_id])) # policy[l]]
    /\ IF li[l] + 1 < num_communications
       THEN /\ li' = [li EXCEPT ![l] = @ + 1]
            /\ lpc' = lpc
       ELSE /\ li' = [li EXCEPT ![l] = 0]
            /\ lpc' = [lpc EXCEPT ![l] = "update"]
    /\ UNCHANGED <<args, state_dim, if_train, policy, last_state, updates, saved,
                   worker_pipes, learner_pipe, eval_msgs, eval_flags, worker_vars,
                   evaluator_vars, stop_file, joined>>

\* buffer.update(buffer_items_tensor) / buffer[:] = ...; agent.update_net(buffer)
LearnerUpdate(l) ==
    /\ lpc[l] = "update"
    /\ updates' = [updates EXCEPT ![l] = [n |-> @.n + 1, buffer |-> states[l]]]
    /\ policy' = [policy EXCEPT ![l] = @ + 1]
    /\ lpc' = [lpc EXCEPT ![l] = "eval_poll"]
    /\ UNCHANGED <<args, state_dim, li, if_train, states, last_state, saved, worker_pipes,
                   learner_pipe, learners_pipe, eval_msgs, eval_flags, worker_vars,
                   evaluator_vars, stop_file, joined, hist>>

\* Line 400: self.eval_pipe.poll()
eval_pipe_poll(l) == eval_flags[l] # <<>>

\* Lines 401-409: the policy put into the message for the Evaluator.  `actor`
\* keeps the snapshot when a flag was read and is set to None otherwise; a None
\* is then replaced by agent.act.
HandshakeActor(l, polled) ==
    LET actor == IF polled THEN policy[l] ELSE None
    IN  IF actor = None THEN policy[l] ELSE actor

\* A recv() that is called without asking poll() first: it waits for a flag.
RecvBlocking(l, polled) == eval_flags[l] # <<>>

\* Line 401: recv() is reached only when poll() found data, so it never waits.
RecvReady(l, polled) == polled => eval_flags[l] # <<>>

\* A flag that is looked at but left in the pipe.
FlagsPeeked(flags) == flags

\* Line 401: the pipe once the flag was received.
FlagsAfterRecv(flags) == Tail(flags)

\* A Learner that also looks at the stop marker itself, as the single-process
\* loop does.
HandshakeTrainOwnCheck(l, polled) ==
    (IF polled THEN Head(eval_flags[l]) ELSE if_train[l]) /\ ~stop_file

\* A Learner that also compares its own step count with the budget.
HandshakeTrainOwnBudget(l, polled) ==
    (IF polled THEN Head(eval_flags[l]) ELSE if_train[l])
        /\ hist[l].round * num_steps <= break_step

\* Lines 400-401: if_train after the poll.
HandshakeTrain(l, polled) == IF polled THEN Head(eval_flags[l]) ELSE if_train[l]

\* A Learner that saves without closing its workers.
AfterLoopSaveOnly == "save"

\* Line 423: what follows the while loop.
AfterLoop == "close_workers"

\* Messages sent to the Evaluator whose flag the Learner has not read.
Ahead(l) == hist[l].msgs - hist[l].flags_read

\* Lines 399-419, then the while test of line 318.  `cap` bounds the model:
\* with `cap` unanswered messages the Learner is scheduled only after the
\* Evaluator.
LearnerHandshake(l, cap) ==
    /\ lpc[l] = "eval_poll"
    /\ LET polled == eval_pipe_poll(l)
           train == HandshakeTrain(l, polled)
       IN  /\ polled \/ Ahead(l) < cap
           /\ RecvReady(l, polled)
           /\ if_train' = [if_train EXCEPT ![l] = train]
           /\ eval_flags' = [eval_flags EXCEPT ![l] = IF polled THEN FlagsAfterRecv(@) ELSE @]
           /\ eval_msgs' = [eval_msgs EXCEPT ![l] =
                    IF train THEN Append(@, <<HandshakeActor(l, polled), num_steps>>) ELSE @]
           /\ lpc' = [lpc EXCEPT ![l] = IF train THEN "send_actor" ELSE AfterLoop]
           /\ hist' = [hist EXCEPT
                    ![l].flags_read = IF polled THEN @ + 1 ELSE @,
                    ![l].read_false = @ \/ (polled /\ ~train),
                    ![l].read_true_after_false = @ \/ (polled /\ train /\ hist[l].read_false),
                    ![l].msgs = IF train THEN @ + 1 ELSE @,
                    ![l].policy_unpolled =
                        @ \/ (~polled /\ train /\ HandshakeActor(l, polled) # None),
                    ![l].round = IF train THEN @ + 1 ELSE @]
    /\ UNCHANGED <<args, state_dim, li, policy, states, last_state, updates, saved,
                   worker_pipes, learner_pipe, learners_pipe, worker_vars, evaluator_vars,
                   stop_file, joined>>

\* A shutdown that forgets the last worker.
CloseCountShort == num_workers - 1

\* Line 425: for send_pipe in self.send_pipes
CloseCount == num_workers

\* Lines 423-427: for send_pipe in self.send_pipes: send_pipe.send(None)
LearnerCloseWorker(l) ==
    /\ lpc[l] = "close_workers"
    /\ worker_pipes' = [worker_pipes EXCEPT ![l][li[l]] = Append(@, None)]
    /\ IF li[l] + 1 < CloseCount
       THEN /\ li' = [li EXCEPT ![l] = @ + 1]
            /\ lpc' = lpc
       ELSE /\ li' = [li EXCEPT ![l] = 0]
            /\ lpc' = [lpc EXCEPT ![l] = "save"]
    /\ hist' = [hist EXCEPT ![l].sentinels[li[l]] = @ + 1]
    /\ UNCHANGED <<args, state_dim, if_train, policy, states, last_state, updates, saved,
                   learner_pipe, learners_pipe, eval_msgs, eval_flags, worker_vars,
                   evaluator_vars, stop_file, joined>>

\* Lines 261-283: buffer is a ReplayBuffer when if_off_policy and a list
\* otherwise; line 431 asks hasattr(buffer, 'save_or_load_history').
buffer_has_history == args.if_off_policy

\* Lines 430-434: what the Learner writes once its loop is over.
SavedFiles ==
    IF args.if_save_buffer /\ buffer_has_history THEN {"agent", "history"} ELSE {"agent"}

\* Lines 429-435: agent.save_or_load_agent(cwd, if_save=True), the replay
\* history, and the end of run().
LearnerSave(l) ==
    /\ lpc[l] = "save"
    /\ saved' = [saved EXCEPT ![l] = SavedFiles]
    /\ lpc' = [lpc EXCEPT ![l] = "done"]
    /\ UNCHANGED <<args, state_dim, li, if_train, policy, states, last_state, updates,
                   worker_pipes, learner_pipe, learners_pipe, eval_msgs, eval_flags,
                   worker_vars, evaluator_vars, stop_file, joined, hist>>

(* ------------------------------------------------------------------ *)
(* Worker.run                                                          *)
(* ------------------------------------------------------------------ *)

\* A Worker that takes None for one more policy.
WorkerAfterRecvAny(actor) == "explore"

\* Lines 506-507: if actor is None: break
WorkerAfterRecv(actor) == IF actor = None THEN "closed" ELSE "explore"

\* Lines 504-507: actor = self.recv_pipe.recv(); if actor is None: break; and,
\* after the break, env.close() and the end of run() (lines 517-518).
WorkerRecv(l, w) ==
    /\ wpc[l][w] = "recv"
    /\ worker_pipes[l][w] # <<>>
    /\ LET actor == Head(worker_pipes[l][w])
       IN  /\ wpc' = [wpc EXCEPT ![l][w] = WorkerAfterRecv(actor)]
           /\ wact' = [wact EXCEPT ![l][w] = IF actor = None THEN @ ELSE actor]
           /\ hist' = [hist EXCEPT
                    ![l].w_snapshots[w] = IF actor = None THEN @ ELSE @ + 1,
                    ![l].got_none[w] = @ \/ actor = None]
    /\ worker_pipes' = [worker_pipes EXCEPT ![l][w] = Tail(@)]
    /\ UNCHANGED <<args, learner_vars, learner_pipe, learners_pipe, eval_msgs, eval_flags,
                   evaluator_vars, stop_file, joined>>

\* A Worker that reports every batch twice.
WorkerSendsTwice(l, w) ==
    <<<<w, ExploreStates(l, w, wact[l][w]), ExploreLastState(l, w, wact[l][w])>>,
      <<w, ExploreStates(l, w, wact[l][w]), ExploreLastState(l, w, wact[l][w])>>>>

\* Line 515: self.send_pipe.send((worker_id, buffer_items, last_state)), as
\* the sequence of messages put on the pipe.
WorkerSends(l, w) ==
    <<<<w, ExploreStates(l, w, wact[l][w]), ExploreLastState(l, w, wact[l][w])>>>>

\* A Worker that explores again with the policy it has.
WorkerLoopNoWait == "explore"

\* Lines 502-505: while True: actor = self.recv_pipe.recv()
WorkerLoop == "recv"

\* Lines 510-515: explore_env, then send (worker_id, buffer_items, last_state)
WorkerExplore(l, w) ==
    /\ wpc[l][w] = "explore"
    /\ learner_pipe' = [learner_pipe EXCEPT ![l] = @ \o WorkerSends(l, w)]
    /\ wpc' = [wpc EXCEPT ![l][w] = WorkerLoop]
    /\ hist' = [hist EXCEPT
            ![l].batch[w] = ExploreStates(l, w, wact[l][w]),
            ![l].w_sent[w] = @ + Len(WorkerSends(l, w))]
    /\ UNCHANGED <<args, learner_vars, worker_pipes, learners_pipe, eval_msgs, eval_flags,
                   wact, evaluator_vars, stop_file, joined>>

\* The Worker process dies (killed, out of memory, an exception that leaves
\* run(): nothing in Worker.run catches one).  Nothing is sent.
WorkerCrash(l, w) ==
    /\ wpc[l][w] \in {"recv", "explore"}
    /\ wpc' = [wpc EXCEPT ![l][w] = "crashed"]
    /\ UNCHANGED <<args, learner_vars, worker_pipes, learner_pipe, learners_pipe, eval_msgs,
                   eval_flags, wact, evaluator_vars, stop_file, joined, hist>>

\* An explore_env that lets the environment's exception through.
EnvErrorRaises == "raise"

\* agent.explore_env when the environment raises in reset/step: the batch of
\* the round is replaced by an invalid-sample marker and returned.
EnvErrorOutcome == "marker"

\* The marker: a batch of the usual shape without a valid sample.
FailedStates == Zeros(<<horizon_len, num_envs, EnvStateDim>>, num_envs, EnvStateDim)
FailedLastState == Zeros(<<num_envs, EnvStateDim>>, num_envs, EnvStateDim)

\* Lines 510-515 when the environment raises during explore_env.
WorkerExploreEnvError(l, w) ==
    /\ wpc[l][w] = "explore"
    /\ IF EnvErrorOutcome = "marker"
       THEN /\ learner_pipe' = [learner_pipe EXCEPT ![l] =
                    Append(@, <<w, FailedStates, FailedLastState>>)]
            /\ wpc' = [wpc EXCEPT ![l][w] = WorkerLoop]
            /\ hist' = [hist EXCEPT
                    ![l].batch[w] = FailedStates,
                    ![l].w_sent[w] = @ + 1,
                    ![l].env_errors[w] = @ + 1]
       ELSE /\ learner_pipe' = learner_pipe
            /\ wpc' = [wpc EXCEPT ![l][w] = "crashed"]
            /\ hist' = [hist EXCEPT ![l].env_errors[w] = @ + 1]
    /\ UNCHANGED <<args, learner_vars, worker_pipes, learners_pipe, eval_msgs, eval_flags,
                   wact, evaluator_vars, stop_file, joined>>

(* ------------------------------------------------------------------ *)
(* Evaluator.evaluate_and_save and EvaluatorProc.run                   *)
(* ------------------------------------------------------------------ *)

\* An evaluate_and_save that wants more than eval_per_step steps between two
\* evaluations.
evaluate_and_save_strict(ev, steps) ==
    LET total == ev.total_step + steps
    IN  IF total < ev.recorder_step \/ total <= ev.eval_step_counter + ev.eval_per_step
        THEN [ev EXCEPT !.total_step = total]
        ELSE [ev EXCEPT !.total_step = total,
                        !.eval_step_counter = total,
                        !.episodes = @ + 1]

\* evaluator.py:73-82: the step accounting and the decision to run the
\* evaluation episodes (get_cumulative_rewards_and_step).
evaluate_and_save(ev, steps) ==
    LET total == ev.total_step + steps
    IN  IF total < ev.recorder_step
        THEN [ev EXCEPT !.total_step = total]
        ELSE IF total < ev.eval_step_counter + ev.eval_per_step
        THEN [ev EXCEPT !.total_step = total]
        ELSE [ev EXCEPT !.total_step = total,
                        !.eval_step_counter = total,
                        !.episodes = @ + 1]

\* An Evaluator that evaluates whatever it is sent.
EvaluatorHandleAlways(ev, actor, steps) == evaluate_and_save(ev, steps)

\* run.py:566-570
EvaluatorHandle(ev, actor, steps) ==
    IF actor = None
    THEN [ev EXCEPT !.total_step = @ + steps]
    ELSE evaluate_and_save(ev, steps)

\* A flag that ignores the stop marker.
ContinueFlagNoMarker(total_step, budget, stop) == total_step <= budget

\* A budget test that allows one step more.
ContinueFlagOneMore(total_step, budget, stop) == (total_step <= budget + 1) /\ ~stop

\* A budget test that stops one message early.
ContinueFlagStrict(total_step, budget, stop) == (total_step < budget) /\ ~stop

\* run.py:573
ContinueFlag(total_step, budget, stop) == (total_step <= budget) /\ ~stop

\* Lines 563-570: receive one message and account for it.
EvaluatorRecv(l) ==
    /\ epc[l] = "recv"
    /\ eval_msgs[l] # <<>>
    /\ LET msg == Head(eval_msgs[l])
           ev == EvaluatorHandle(evaluator[l], msg[1], msg[2])
       IN  /\ evaluator' = [evaluator EXCEPT ![l] = ev]
           /\ hist' = [hist EXCEPT
                    ![l].processed = @ + 1,
                    ![l].steps_sum = @ + msg[2],
                    ![l].null_processed = IF msg[1] = None THEN @ + 1 ELSE @,
                    ![l].null_episodes =
                        IF msg[1] = None THEN @ + (ev.episodes - evaluator[l].episodes) ELSE @]
    /\ eval_msgs' = [eval_msgs EXCEPT ![l] = Tail(@)]
    /\ epc' = [epc EXCEPT ![l] = "send"]
    /\ UNCHANGED <<args, learner_vars, worker_pipes, learner_pipe, learners_pipe, eval_flags,
                   worker_vars, e_if_train, stop_file, joined>>

\* A main loop that does not look at its flag.
EvaluatorLoopForever(flag) == "recv"

\* Line 561: while if_train
EvaluatorLoopNext(flag) == IF flag THEN "recv" ELSE "drain"

\* Lines 573-574, then the while test of line 561.
EvaluatorSend(l) ==
    /\ epc[l] = "send"
    /\ LET flag == ContinueFlag(evaluator[l].total_step, break_step, stop_file)
       IN  /\ e_if_train' = [e_if_train EXCEPT ![l] = flag]
           /\ eval_flags' = [eval_flags EXCEPT ![l] = Append(@, flag)]
           /\ epc' = [epc EXCEPT ![l] = EvaluatorLoopNext(flag)]
           /\ hist' = [hist EXCEPT
                    ![l].flags_sent = @ + 1,
                    ![l].sent_false = @ \/ ~flag,
                    ![l].sent_true_after_false = @ \/ (flag /\ hist[l].sent_false)]
    /\ UNCHANGED <<args, learner_vars, worker_pipes, learner_pipe, learners_pipe, eval_msgs,
                   worker_vars, evaluator, stop_file, joined>>

\* Line 581: while self.pipe1.poll()  (pipe1 is the Learner's end: a flag is unread)
EvaluatorDrainOuter(l) ==
    /\ epc[l] = "drain"
    /\ epc' = [epc EXCEPT ![l] = IF eval_flags[l] # <<>> THEN "drain_inner" ELSE "closed"]
    /\ UNCHANGED <<args, learner_vars, worker_pipes, learner_pipe, learners_pipe, eval_msgs,
                   eval_flags, worker_vars, e_if_train, evaluator, stop_file, joined, hist>>

\* Lines 582-587: while self.pipe0.poll(): self.pipe0.recv()
EvaluatorDrainInner(l) ==
    /\ epc[l] = "drain_inner"
    /\ IF eval_msgs[l] # <<>>
       THEN /\ eval_msgs' = [eval_msgs EXCEPT ![l] = Tail(@)]
            /\ epc' = epc
       ELSE /\ eval_msgs' = eval_msgs
            /\ epc' = [epc EXCEPT ![l] = "drain"]
    /\ UNCHANGED <<args, learner_vars, worker_pipes, learner_pipe, learners_pipe, eval_flags,
                   worker_vars, e_if_train, evaluator, stop_file, joined, hist>>

(* ------------------------------------------------------------------ *)
(* The stop marker and the Orchestrator                                *)
(* ------------------------------------------------------------------ *)

\* Somebody creates / removes the file {cwd}/stop.
CreateStop ==
    /\ ~stop_file
    /\ ~joined
    /\ stop_file' = TRUE
    /\ UNCHANGED <<args, learner_vars, worker_pipes, learner_pipe, learners_pipe, eval_msgs,
                   eval_flags, worker_vars, evaluator_vars, joined, hist>>

RemoveStop ==
    /\ stop_file
    /\ ~joined
    /\ stop_file' = FALSE
    /\ UNCHANGED <<args, learner_vars, worker_pipes, learner_pipe, learners_pipe, eval_msgs,
                   eval_flags, worker_vars, evaluator_vars, joined, hist>>

AllExited ==
    /\ \A l \in Learners : lpc[l] = "done" /\ epc[l] = "closed"
    /\ \A l \in Learners : \A w \in Workers : wpc[l][w] \in {"closed", "crashed"}

\* run.py:169 / 208-209: [process.join() for process in process_list]
OrchestratorJoin ==
    /\ ~joined
    /\ AllExited
    /\ joined' = TRUE
    /\ UNCHANGED <<args, learner_vars, worker_pipes, learner_pipe, learners_pipe, eval_msgs,
                   eval_flags, worker_vars, evaluator_vars, stop_file, hist>>

(* ------------------------------------------------------------------ *)
(* Single-learner multiprocessing (train_agent_multiprocessing)        *)
(* ------------------------------------------------------------------ *)

Next ==
    \/ \E l \in Learners : LearnerSendActor(l)
    \/ \E l \in Learners : LearnerRecvWorker(l)
    \/ \E l \in Learners : LearnerUpdate(l)
    \/ \E l \in Learners : LearnerHandshake(l, MaxAhead)
    \/ \E l \in Learners : LearnerCloseWorker(l)
    \/ \E l \in Learners : LearnerSave(l)
    \/ \E l \in Learners : \E w \in Workers : WorkerRecv(l, w)
    \/ \E l \in Learners : \E w \in Workers : WorkerExplore(l, w)
    \/ \E l \in Learners : EvaluatorRecv(l)
    \/ \E l \in Learners : EvaluatorSend(l)
    \/ \E l \in Learners : EvaluatorDrainOuter(l)
    \/ \E l \in Learners : EvaluatorDrainInner(l)
    \/ CreateStop
    \/ RemoveStop
    \/ OrchestratorJoin

Spec == Init /\ [][Next]_vars

(* ------------------------------------------------------------------ *)
(* Multi-learner multiprocessing (train_agent_multiprocessing_multi_gpu) *)
(* ------------------------------------------------------------------ *)

InitRing ==
    /\ InitConfig(NumGpus, RingWorkers, RingEnvs, 0 .. MaxBreakStepRing, {EnvStateDim}, {TRUE}, {TRUE})
    /\ InitProcesses("send_actor")

NextRing ==
    \/ \E l \in Learners : LearnerSendActor(l)
    \/ \E l \in Learners : LearnerRecvWorker(l)
    \/ \E l \in Learners : LearnerRingSend(l)
    \/ \E l \in Learners : LearnerRingRecv(l)
    \/ \E l \in Learners : LearnerUpdate(l)
    \/ \E l \in Learners : LearnerHandshake(l, MaxAheadRing)
    \/ \E l \in Learners : LearnerCloseWorker(l)
    \/ \E l \in Learners : LearnerSave(l)
    \/ \E l \in Learners : \E w \in Workers : WorkerRecv(l, w)
    \/ \E l \in Learners : \E w \in Workers : WorkerExplore(l, w)
    \/ \E l \in Learners : EvaluatorRecv(l)
    \/ \E l \in Learners : EvaluatorSend(l)
    \/ \E l \in Learners : EvaluatorDrainOuter(l)
    \/ \E l \in Learners : EvaluatorDrainInner(l)
    \/ CreateStop
    \/ RemoveStop
    \/ OrchestratorJoin

SpecRing == InitRing /\ [][NextRing]_vars

\* Two learners, each with its own Evaluator, and a budget that lets a
\* learner be told to go on: every pipe of the ring has one reader.
PairGpus == 2
MaxBreakStepPair == 1

InitRingPair ==
    /\ InitConfig(PairGpus, RingWorkers, RingEnvs, 0 .. MaxBreakStepPair, {EnvStateDim}, {TRUE}, {TRUE})
    /\ InitProcesses("send_actor")

SpecRingPair == InitRingPair /\ [][NextRing]_vars

(* ------------------------------------------------------------------ *)
(* The single-learner topology under fair scheduling of its processes  *)
(* ------------------------------------------------------------------ *)

\* Every started process is an operating-system process of its own and keeps
\* running when it can; nobody has to touch the stop marker.
Fairness ==
    /\ \A l \in {0} :
        /\ WF_vars(LearnerSendActor(l))
        /\ WF_vars(LearnerRecvWorker(l))
        /\ WF_vars(LearnerUpdate(l))
        /\ WF_vars(LearnerHandshake(l, MaxAhead))
        /\ WF_vars(LearnerCloseWorker(l))
        /\ WF_vars(LearnerSave(l))
        /\ WF_vars(EvaluatorRecv(l))
        /\ WF_vars(EvaluatorSend(l))
        /\ WF_vars(EvaluatorDrainOuter(l))
        /\ WF_vars(EvaluatorDrainInner(l))
        /\ \A w \in 0 .. (NumWorkers - 1) :
            /\ WF_vars(WorkerRecv(l, w))
            /\ WF_vars(WorkerExplore(l, w))
    /\ WF_vars(OrchestratorJoin)

\* Whether the replay history is saved plays no part in the scheduling.
InitFair ==
    /\ InitConfig(0, NumWorkers, NumEnvs, 0 .. MaxBreakStep, 1 .. MaxStateDim, {TRUE}, {TRUE})
    /\ InitProcesses("send_actor")

FairSpec == InitFair /\ [][Next]_vars /\ Fairness

(* ------------------------------------------------------------------ *)
(* The single-learner topology when nobody creates the stop marker     *)
(* ------------------------------------------------------------------ *)

InitNoMarker ==
    /\ InitConfig(0, NumWorkers, NumEnvs, 0 .. MaxBreakStep, {EnvStateDim}, {TRUE}, {TRUE})
    /\ InitProcesses("send_actor")

NextNoMarker ==
    \/ \E l \in Learners : LearnerSendActor(l)
    \/ \E l \in Learners : LearnerRecvWorker(l)
    \/ \E l \in Learners : LearnerUpdate(l)
    \/ \E l \in Learners : LearnerHandshake(l, MaxAhead)
    \/ \E l \in Learners : LearnerCloseWorker(l)
    \/ \E l \in Learners : LearnerSave(l)
    \/ \E l \in Learners : \E w \in Workers : WorkerRecv(l, w)
    \/ \E l \in Learners : \E w \in Workers : WorkerExplore(l, w)
    \/ \E l \in Learners : EvaluatorRecv(l)
    \/ \E l \in Learners : EvaluatorSend(l)
    \/ \E l \in Learners : EvaluatorDrainOuter(l)
    \/ \E l \in Learners : EvaluatorDrainInner(l)
    \/ OrchestratorJoin

SpecNoMarker == InitNoMarker /\ [][NextNoMarker]_vars

(* ------------------------------------------------------------------ *)
(* An EvaluatorProc alone, fed by an arbitrary peer on evaluator_pipe  *)
(* ------------------------------------------------------------------ *)

\* The peer sends (actor, steps, exp_r, logging_tuple); actor may be None.
PeerSend(l) ==
    /\ hist[l].msgs < MaxMsgs
    /\ \E actor \in {None, 0} : \E steps \in 0 .. MaxSteps :
            eval_msgs' = [eval_msgs EXCEPT ![l] = Append(@, <<actor, steps>>)]
    /\ hist' = Bump(l, "msgs")
    /\ UNCHANGED <<args, learner_vars, worker_pipes, learner_pipe, learners_pipe, eval_flags,
                   worker_vars, evaluator_vars, stop_file, joined>>

\* The peer receives a flag.
PeerRecv(l) ==
    /\ eval_flags[l] # <<>>
    /\ eval_flags' = [eval_flags EXCEPT ![l] = Tail(@)]
    /\ hist' = Bump(l, "flags_read")
    /\ UNCHANGED <<args, learner_vars, worker_pipes, learner_pipe, learners_pipe, eval_msgs,
                   worker_vars, evaluator_vars, stop_file, joined>>

InitEval ==
    /\ InitConfig(0, NumWorkers, NumEnvs, 0 .. MaxBreakStep, {EnvStateDim}, {TRUE}, {TRUE})
    /\ InitProcesses("send_actor")

NextEval ==
    \/ \E l \in Learners : PeerSend(l)
    \/ \E l \in Learners : PeerRecv(l)
    \/ \E l \in Learners : EvaluatorRecv(l)
    \/ \E l \in Learners : EvaluatorSend(l)
    \/ \E l \in Learners : EvaluatorDrainOuter(l)
    \/ \E l \in Learners : EvaluatorDrainInner(l)
    \/ CreateStop
    \/ RemoveStop

SpecEval == InitEval /\ [][NextEval]_vars

(* ------------------------------------------------------------------ *)
(* The Workers alone, fed by an arbitrary peer on their pipes          *)
(* ------------------------------------------------------------------ *)

\* The peer sends a policy or None to a worker, whatever that worker is doing.
PeerSendWorker(l, w) ==
    /\ hist[l].actor_sent < MaxSnapshots
    /\ \E actor \in {None, 0} :
            worker_pipes' = [worker_pipes EXCEPT ![l][w] = Append(@, actor)]
    /\ hist' = Bump(l, "actor_sent")
    /\ UNCHANGED <<args, learner_vars, learner_pipe, learners_pipe, eval_msgs, eval_flags,
                   worker_vars, evaluator_vars, stop_file, joined>>

\* The peer receives a report.
PeerRecvWorker(l) ==
    /\ learner_pipe[l] # <<>>
    /\ learner_pipe' = [learner_pipe EXCEPT ![l] = Tail(@)]
    /\ hist' = [hist EXCEPT
            ![l].reports = @ + 1,
            ![l].reports_from[Head(learner_pipe[l])[1]] = @ + 1]
    /\ UNCHANGED <<args, learner_vars, worker_pipes, learners_pipe, eval_msgs, eval_flags,
                   worker_vars, evaluator_vars, stop_file, joined>>

InitWorker ==
    /\ InitConfig(0, NumWorkers, NumEnvs, {0}, {EnvStateDim}, {TRUE}, {TRUE})
    /\ InitProcesses("send_actor")

NextWorker ==
    \/ \E l \in Learners : \E w \in Workers : PeerSendWorker(l, w)
    \/ \E l \in Learners : PeerRecvWorker(l)
    \/ \E l \in Learners : \E w \in Workers : WorkerRecv(l, w)
    \/ \E l \in Learners : \E w \in Workers : WorkerExplore(l, w)

SpecWorker == InitWorker /\ [][NextWorker]_vars

(* ------------------------------------------------------------------ *)
(* The single-learner topology with a Worker process that may die      *)
(* ------------------------------------------------------------------ *)

\* A step of one of the started processes, or the return of the joins.
ProcessStep ==
    \/ \E l \in Learners : LearnerSendActor(l)
    \/ \E l \in Learners : LearnerRecvWorker(l)
    \/ \E l \in Learners : LearnerUpdate(l)
    \/ \E l \in Learners : LearnerHandshake(l, MaxAhead)
    \/ \E l \in Learners : LearnerCloseWorker(l)
    \/ \E l \in Learners : LearnerSave(l)
    \/ \E l \in Learners : \E w \in Workers : WorkerRecv(l, w)
    \/ \E l \in Learners : \E w \in Workers : WorkerExplore(l, w)
    \/ \E l \in Learners : EvaluatorRecv(l)
    \/ \E l \in Learners : EvaluatorSend(l)
    \/ \E l \in Learners : EvaluatorDrainOuter(l)
    \/ \E l \in Learners : EvaluatorDrainInner(l)
    \/ OrchestratorJoin

InitCrash ==
    /\ InitConfig(0, NumWorkers, NumEnvs, 0 .. MaxBreakStep, {EnvStateDim}, {TRUE}, {TRUE})
    /\ InitProcesses("send_actor")

NextCrash ==
    \/ ProcessStep
    \/ \E l \in Learners : \E w \in Workers : WorkerCrash(l, w)
    \/ CreateStop
    \/ RemoveStop

SpecCrash == InitCrash /\ [][NextCrash]_vars

(* ------------------------------------------------------------------ *)
(* The single-learner topology with an environment that may raise      *)
(* ------------------------------------------------------------------ *)

InitEnvError ==
    /\ InitConfig(0, NumWorkers, NumEnvs, 0 .. MaxBreakStepRing, {EnvStateDim}, {TRUE}, {TRUE})
    /\ InitProcesses("send_actor")

NextEnvError ==
    \/ \E l \in Learners : LearnerSendActor(l)
    \/ \E l \in Learners : LearnerRecvWorker(l)
    \/ \E l \in Learners : LearnerUpdate(l)
    \/ \E l \in Learners : LearnerHandshake(l, MaxAheadRing)
    \/ \E l \in Learners : LearnerCloseWorker(l)
    \/ \E l \in Learners : LearnerSave(l)
    \/ \E l \in Learners : \E w \in Workers : WorkerRecv(l, w)
    \/ \E l \in Learners : \E w \in Workers : WorkerExplore(l, w)
    \/ \E l \in Learners : \E w \in Workers : WorkerExploreEnvError(l, w)
    \/ \E l \in Learners : EvaluatorRecv(l)
    \/ \E l \in Learners : EvaluatorSend(l)
    \/ \E l \in Learners : EvaluatorDrainOuter(l)
    \/ \E l \in Learners : EvaluatorDrainInner(l)
    \/ CreateStop
    \/ RemoveStop
    \/ OrchestratorJoin

SpecEnvError == InitEnvError /\ [][NextEnvError]_vars

(* ------------------------------------------------------------------ *)
(* One Learner on the ring, its peers played by arbitrary senders      *)
(* ------------------------------------------------------------------ *)

\* What peer k sends: the columns of its local segment, gathered with some
\* policy version v.
PeerCopy(k, v) ==
    [shape |-> <<horizon_len, num_envs * num_workers, EnvStateDim>>,
     data |-> [c \in 0 .. (num_envs * num_workers - 1) |->
                [f \in 1 .. EnvStateDim |-> <<k, c \div num_envs, c % num_envs, v>>]]]

\* Copies the peers have sent so far.
RECURSIVE PeerCopiesSent(_)
PeerCopiesSent(ks) ==
    IF ks = {} THEN 0
    ELSE LET k == CHOOSE x \in ks : TRUE
         IN  (IF lpc[k] = "peer" THEN hist[k].msgs ELSE 0) + PeerCopiesSent(ks \ {k})

\* Peer k puts a copy on its own pipe (lines 363-366 of that peer), each of a
\* later policy version than the one before.
PeerRingSend(k) ==
    /\ lpc[k] = "peer"
    /\ PeerCopiesSent(Learners) < MaxRingCopies
    /\ learners_pipe' = [learners_pipe EXCEPT ![k] = Append(@, PeerCopy(k, hist[k].msgs))]
    /\ hist' = Bump(k, "msgs")
    /\ UNCHANGED <<args, learner_vars, worker_pipes, learner_pipe, eval_msgs, eval_flags,
                   worker_vars, evaluator_vars, stop_file, joined>>

\* Peer k receives from the pipe of another peer (lines 367-370 of that peer).
\* What is taken from the pipe of the learner that runs is left out: that
\* learner never reads its own pipe.
PeerRingRecv(k) ==
    /\ lpc[k] = "peer"
    /\ \E j \in Learners \ {k} :
        /\ lpc[j] = "peer"
        /\ learners_pipe[j] # <<>>
        /\ learners_pipe' = [learners_pipe EXCEPT ![j] = Tail(@)]
    /\ UNCHANGED <<args, learner_vars, worker_pipes, learner_pipe, eval_msgs, eval_flags,
                   worker_vars, evaluator_vars, stop_file, joined, hist>>

\* Any one of the learners is the one that runs; the others are peers.  The
\* step budget is 0 and nobody touches the stop marker.
InitRingPeer ==
    /\ InitConfig(NumGpus, RingWorkers, RingEnvs, {0}, {EnvStateDim}, {TRUE}, {TRUE})
    /\ \E i \in Learners :
            InitProcessesAt([l \in Learners |-> IF l = i THEN "send_actor" ELSE "peer"])

NextRingPeer ==
    \/ \E l \in Learners : LearnerSendActor(l)
    \/ \E l \in Learners : LearnerRecvWorker(l)
    \/ \E l \in Learners : LearnerRingSend(l)
    \/ \E l \in Learners : LearnerRingRecv(l)
    \/ \E l \in Learners : LearnerUpdate(l)
    \/ \E l \in Learners : LearnerHandshake(l, MaxAheadRing)
    \/ \E l \in Learners : LearnerCloseWorker(l)
    \/ \E l \in Learners : LearnerSave(l)
    \/ \E l \in Learners : \E w \in Workers : WorkerRecv(l, w)
    \/ \E l \in Learners : \E w \in Workers : WorkerExplore(l, w)
    \/ \E l \in Learners : EvaluatorRecv(l)
    \/ \E l \in Learners : EvaluatorSend(l)
    \/ \E l \in Learners : EvaluatorDrainOuter(l)
    \/ \E l \in Learners : EvaluatorDrainInner(l)
    \/ \E k \in Learners : PeerRingSend(k)
    \/ \E k \in Learners : PeerRingRecv(k)

SpecRingPeer == InitRingPeer /\ [][NextRingPeer]_vars

(* ------------------------------------------------------------------ *)
(* Single-process training (train_agent_single_process)                *)
(* ------------------------------------------------------------------ *)

\* Line 111: buffer_items = agent.explore_env(env, horizon_len)
SingleExplore(l) ==
    /\ lpc[l] = "sp_explore"
    /\ lpc' = [lpc EXCEPT ![l] = "sp_buffer"]
    /\ hist' = [hist EXCEPT ![l].explores = @ + 1,
                            ![l].batch[0] = ExploreStates(l, 0, policy[l])]
    /\ UNCHANGED <<args, state_dim, li, if_train, policy, states, last_state, updates, saved,
                   worker_pipes, learner_pipe, learners_pipe, eval_msgs, eval_flags,
                   worker_vars, evaluator_vars, stop_file, joined>>

\* Lines 112-115: buffer.update(buffer_items) / buffer[:] = buffer_items; the
\* buffer is modelled by the items it was given last.
SingleBufferUpdate(l) ==
    /\ lpc[l] = "sp_buffer"
    /\ states' = [states EXCEPT ![l] = hist[l].batch[0]]
    /\ lpc' = [lpc EXCEPT ![l] = "sp_update_net"]
    /\ hist' = Bump(l, "buffer_updates")
    /\ UNCHANGED <<args, state_dim, li, if_train, policy, last_state, updates, saved,
                   worker_pipes, learner_pipe, learners_pipe, eval_msgs, eval_flags,
                   worker_vars, evaluator_vars, stop_file, joined>>

\* Lines 129-130: logging_tuple = agent.update_net(buffer)
SingleUpdateNet(l) ==
    /\ lpc[l] = "sp_update_net"
    /\ updates' = [updates EXCEPT ![l] = [n |-> @.n + 1, buffer |-> states[l]]]
    /\ policy' = [policy EXCEPT ![l] = @ + 1]
    /\ lpc' = [lpc EXCEPT ![l] = "sp_evaluate"]
    /\ UNCHANGED <<args, state_dim, li, if_train, states, last_state, saved, worker_pipes,
                   learner_pipe, learners_pipe, eval_msgs, eval_flags, worker_vars,
                   evaluator_vars, stop_file, joined, hist>>

\* Line 136: evaluator.evaluate_and_save(actor=agent.act, steps=horizon_len, ...)
SingleEvaluate(l) ==
    /\ lpc[l] = "sp_evaluate"
    /\ evaluator' = [evaluator EXCEPT ![l] = evaluate_and_save(@, horizon_len)]
    /\ lpc' = [lpc EXCEPT ![l] = "sp_test"]
    /\ hist' = Bump(l, "evaluations")
    /\ UNCHANGED <<args, state_dim, li, if_train, policy, states, last_state, updates, saved,
                   worker_pipes, learner_pipe, learners_pipe, eval_msgs, eval_flags,
                   worker_vars, epc, e_if_train, stop_file, joined>>

\* A loop test that stops one iteration early.
SingleIfTrainStrict(total_step, budget, stop) == (total_step < budget) /\ ~stop

\* Line 137
SingleIfTrain(total_step, budget, stop) == (total_step <= budget) /\ ~stop

\* Line 137 and the while test of line 110.
SingleLoopTest(l) ==
    /\ lpc[l] = "sp_test"
    /\ LET train == SingleIfTrain(evaluator[l].total_step, break_step, stop_file)
       IN  /\ if_train' = [if_train EXCEPT ![l] = train]
           /\ lpc' = [lpc EXCEPT ![l] = IF train THEN "sp_explore" ELSE "sp_save"]
           /\ hist' = [hist EXCEPT ![l].round = IF train THEN @ + 1 ELSE @,
                                   ![l].marker_read = @ \/ stop_file]
    /\ UNCHANGED <<args, state_dim, li, policy, states, last_state, updates, saved,
                   worker_pipes, learner_pipe, learners_pipe, eval_msgs, eval_flags,
                   worker_vars, evaluator_vars, stop_file, joined>>

\* Lines 141-145: env.close(), the training curve, save_or_load_agent and the
\* replay history.
SingleSave(l) ==
    /\ lpc[l] = "sp_save"
    /\ saved' = [saved EXCEPT ![l] = SavedFiles]
    /\ lpc' = [lpc EXCEPT ![l] = "done"]
    /\ UNCHANGED <<args, state_dim, li, if_train, policy, states, last_state, updates,
                   worker_pipes, learner_pipe, learners_pipe, eval_msgs, eval_flags,
                   worker_vars, evaluator_vars, stop_file, joined, hist>>

\* One process with one environment set; args.state_dim was set to
\* env.state_dim (lines 46-48).
InitSingle ==
    /\ args \in [num_workers : {1}, num_envs : {NumEnvs}, horizon_len : 1 .. MaxHorizonLen,
                 break_step : 0 .. MaxBreakStep, num_gpus : {0},
                 if_off_policy : BOOLEAN, if_save_buffer : BOOLEAN]
    /\ state_dim = [l \in Learners |-> EnvStateDim]
    /\ InitProcesses("sp_explore")

NextSingle ==
    \/ \E l \in Learners : SingleExplore(l)
    \/ \E l \in Learners : SingleBufferUpdate(l)
    \/ \E l \in Learners : SingleUpdateNet(l)
    \/ \E l \in Learners : SingleEvaluate(l)
    \/ \E l \in Learners : SingleLoopTest(l)
    \/ \E l \in Learners : SingleSave(l)
    \/ CreateStop
    \/ RemoveStop

SpecSingle == InitSingle /\ [][NextSingle]_vars

(* ------------------------------------------------------------------ *)
(* train_agent: the choice of the training mode, and the run it starts *)
(* ------------------------------------------------------------------ *)

\* A dispatch that looks at learner_gpu_ids first.
TrainModeGpuFirst(if_single_process, gpu_ids) ==
    IF gpu_ids # 0 THEN "multiprocessing_multi_gpu"
    ELSE IF if_single_process THEN "single_process"
    ELSE "multiprocessing"

\* Lines 26-36: the function train_agent calls; `gpu_ids` is
\* len(args.learner_gpu_ids).  (The last else only builds a ValueError and is
\* never reached.)
TrainMode(if_single_process, gpu_ids) ==
    IF if_single_process THEN "single_process"
    ELSE IF gpu_ids = 0 THEN "multiprocessing"
    ELSE IF gpu_ids # 0 THEN "multiprocessing_multi_gpu"
    ELSE "none"

\* train_agent: one call.  Single-process training runs in the caller (the
\* model's learner 0); the multiprocessing modes start one Learner per entry
\* of learner_gpu_ids, or one when there is none.
TrainAgent ==
    /\ \A l \in Learners : lpc[l] = "start"
    /\ LET mode == TrainMode(args.if_single_process, args.num_gpus)
       IN  /\ lpc' = [l \in Learners |->
                    IF mode = "single_process"
                    THEN (IF l = 0 THEN "sp_explore" ELSE "unused")
                    ELSE "send_actor"]
           /\ hist' = [l \in Learners |-> [hist[l] EXCEPT !.modes = Append(@, mode)]]
    /\ UNCHANGED <<args, state_dim, li, if_train, policy, states, last_state, updates, saved,
                   worker_pipes, learner_pipe, learners_pipe, eval_msgs, eval_flags,
                   worker_vars, evaluator_vars, stop_file, joined>>

\* len(args.learner_gpu_ids): none, one, several.
TrainGpuIds == {0, 1, 2}

InitTrain ==
    /\ args \in [num_workers : {RingWorkers}, num_envs : {RingEnvs}, horizon_len : {HorizonLen},
                 break_step : 0 .. MaxBreakStepRing, num_gpus : TrainGpuIds,
                 if_off_policy : {TRUE}, if_save_buffer : {TRUE},
                 if_single_process : BOOLEAN]
    /\ state_dim = [l \in Learners |-> EnvStateDim]
    /\ InitProcesses("start")

NextTrain ==
    \/ TrainAgent
    \/ \E l \in Learners : SingleExplore(l)
    \/ \E l \in Learners : SingleBufferUpdate(l)
    \/ \E l \in Learners : SingleUpdateNet(l)
    \/ \E l \in Learners : SingleEvaluate(l)
    \/ \E l \in Learners : SingleLoopTest(l)
    \/ \E l \in Learners : SingleSave(l)
    \/ \E l \in Learners : LearnerSendActor(l)
    \/ \E l \in Learners : LearnerRecvWorker(l)
    \/ \E l \in Learners : LearnerRingSend(l)
    \/ \E l \in Learners : LearnerRingRecv(l)
    \/ \E l \in Learners : LearnerUpdate(l)
    \/ \E l \in Learners : LearnerHandshake(l, MaxAheadRing)
    \/ \E l \in Learners : LearnerCloseWorker(l)
    \/ \E l \in Learners : LearnerSave(l)
    \/ \E l \in Learners : \E w \in Workers : WorkerRecv(l, w)
    \/ \E l \in Learners : \E w \in Workers : WorkerExplore(l, w)
    \/ \E l \in Learners : EvaluatorRecv(l)
    \/ \E l \in Learners : EvaluatorSend(l)
    \/ \E l \in Learners : EvaluatorDrainOuter(l)
    \/ \E l \in Learners : EvaluatorDrainInner(l)
    \/ CreateStop
    \/ RemoveStop

SpecTrain == InitTrain /\ [][NextTrain]_vars

(* ------------------------------------------------------------------ *)
(* The Evaluator object: evaluate_and_save in full                      *)
(* ------------------------------------------------------------------ *)

MaxCalls == 2          \* calls of evaluate_and_save in a run
MaxEvalPerStep == 2    \* args.eval_per_step is drawn from 1 .. MaxEvalPerStep
MaxRecordStep == 2     \* args.eval_record_step is drawn from 0 .. MaxRecordStep
MaxSaveGap == 2        \* args.save_gap is drawn from 1 .. MaxSaveGap
MaxReturn == 1         \* an episode's return is one of MaxReturn + 1 values
EvalTimes == 1         \* args.eval_times: episodes of one evaluation

RECURSIVE Lcm(_, _)
\* The least multiple of every number in 1 .. n that is a multiple of m.
Lcm(n, m) ==
    IF n <= 1 THEN m
    ELSE Lcm(n - 1, CHOOSE k \in m .. (m * n) : k % m = 0 /\ k % n = 0 /\
                        \A j \in m .. (k - 1) : ~(j % m = 0 /\ j % n = 0))

\* Episode returns: multiples of a number that every possible episode count
\* divides, so that the mean of any rows is a whole number.
Returns == {k * Lcm(EvalTimes, 1) : k \in 0 .. MaxReturn}

\* -np.inf: below every return.
NegInf == 0 - 1

RECURSIVE SeqSum(_)
SeqSum(q) == IF q = <<>> THEN 0 ELSE Head(q) + SeqSum(Tail(q))

\* returns.mean()
Mean(rows) == SeqSum(rows) \div Len(rows)

\* What get_cumulative_rewards_and_step returns: None after a major error,
\* else a tensor with one row per valid episode (of a row only the return is
\* kept here; the episode's length is printed and nothing else).
RewardsStepTen ==
    {[none |-> TRUE, rows |-> <<>>]} \cup
    {[none |-> FALSE, rows |-> rows] :
        rows \in UNION {[1 .. n -> Returns] : n \in 0 .. EvalTimes}}

\* evaluator.py:13-37: Evaluator.__init__
Evaluator(eval_per_step, eval_record_step, save_gap, if_keep_save) ==
    [total_step |-> 0, eval_step_counter |-> -eval_per_step, episodes |-> 0,
     eval_per_step |-> eval_per_step, recorder_step |-> eval_record_step,
     save_gap |-> save_gap, save_counter |-> 0, if_keep_save |-> if_keep_save,
     recorder |-> <<>>, max_r |-> NegInf, checkpoints |-> {}]

\* evaluator.py:84-117: the average return of the evaluation, -inf when there
\* is no valid episode.
avg_r_of(rewards_step_ten) ==
    IF rewards_step_ten.none \/ Len(rewards_step_ten.rows) = 0
    THEN NegInf
    ELSE Mean(rewards_step_ten.rows)

\* An Evaluator that also saves when the best return is only equalled.
if_save_equal(avg_r, prev_max_r) == avg_r > NegInf /\ avg_r >= prev_max_r

\* evaluator.py:191: if_save = avg_r > -np.inf and avg_r > prev_max_r
if_save_of(avg_r, prev_max_r) == avg_r > NegInf /\ avg_r > prev_max_r

\* A best-return checkpoint that restarts the count to the periodic one.
save_counter_reset_on_best(counter) == 0

\* evaluator.py:199-207: the best-return branch leaves save_counter alone.
save_counter_after_best(counter) == counter

\* A recorder that keeps the failed evaluations too.
recorder_keeps_all(recorder, total_step, avg_r) == Append(recorder, <<total_step, avg_r>>)

\* evaluator.py:136-139: only a successful evaluation is recorded.
recorder_append(recorder, total_step, avg_r) ==
    IF avg_r > NegInf THEN Append(recorder, <<total_step, avg_r>>) ELSE recorder

\* evaluator.py:84-233: what evaluate_and_save does once it has decided to
\* evaluate; `ev` already has the new total_step and eval_step_counter.  A
\* checkpoint is <<kind, total_step>>, entered when th.save is called.
record_and_save(ev, rewards_step_ten) ==
    LET avg_r == avg_r_of(rewards_step_ten)
        prev_max_r == ev.max_r
        if_save == if_save_of(avg_r, prev_max_r)
        ev1 == [ev EXCEPT
                    !.recorder = recorder_append(@, ev.total_step, avg_r),
                    !.max_r = IF avg_r > NegInf THEN Max(@, avg_r) ELSE @]
    IN  IF ~ev1.if_keep_save THEN ev1
        ELSE LET counter == ev1.save_counter + 1
             IN  IF if_save
                 THEN [ev1 EXCEPT !.save_counter = save_counter_after_best(counter),
                                  !.checkpoints = @ \cup {<<"best", ev.total_step>>}]
                 ELSE IF counter >= ev1.save_gap
                 THEN [ev1 EXCEPT !.save_counter = 0,
                                  !.checkpoints = @ \cup {<<"periodic", ev.total_step>>}]
                 ELSE [ev1 EXCEPT !.save_counter = counter]

\* An evaluate_and_save that moves eval_step_counter on every call.
evaluate_and_save_counts_all(ev, steps, rewards_step_ten) ==
    LET ev1 == evaluate_and_save(ev, steps)
    IN  IF ev1.episodes = ev.episodes
        THEN [ev1 EXCEPT !.eval_step_counter = ev1.total_step]
        ELSE record_and_save(ev1, rewards_step_ten)

\* evaluator.py:70-233: evaluate_and_save with the outcome of its episodes.
evaluate_and_save_full(ev, steps, rewards_step_ten) ==
    LET ev1 == evaluate_and_save(ev, steps)
    IN  IF ev1.episodes = ev.episodes
        THEN ev1
        ELSE record_and_save(ev1, rewards_step_ten)

\* One call of evaluate_and_save; the episodes have an outcome only when they
\* are run.  hist keeps the call's arguments.
CallEvaluateAndSave(l) ==
    /\ hist[l].processed < MaxCalls
    /\ \E steps \in 0 .. MaxSteps :
        LET evaluated == evaluate_and_save(evaluator[l], steps).episodes # evaluator[l].episodes
        IN  \E rewards_step_ten \in
                    (IF evaluated THEN RewardsStepTen ELSE {[none |-> TRUE, rows |-> <<>>]}) :
            /\ evaluator' = [evaluator EXCEPT
                    ![l] = evaluate_and_save_full(@, steps, rewards_step_ten)]
            /\ hist' = [hist EXCEPT
                    ![l].processed = @ + 1,
                    ![l].steps_sum = @ + steps,
                    ![l].evaluations = IF evaluated THEN @ + 1 ELSE @,
                    ![l].last_eval_step = IF evaluated THEN hist[l].steps_sum + steps ELSE @,
                    ![l].last_avg_r = IF evaluated THEN avg_r_of(rewards_step_ten) ELSE @,
                    ![l].last_failed =
                        IF evaluated
                        THEN rewards_step_ten.none \/ rewards_step_ten.rows = <<>>
                        ELSE @,
                    ![l].avg_rs =
                        IF evaluated /\ avg_r_of(rewards_step_ten) # NegInf
                        THEN @ \cup {avg_r_of(rewards_step_ten)} ELSE @]
    /\ UNCHANGED <<args, learner_vars, worker_pipes, learner_pipe, learners_pipe, eval_msgs,
                   eval_flags, worker_vars, epc, e_if_train, stop_file, joined>>

InitEvaluator ==
    /\ InitConfig(0, NumWorkers, NumEnvs, {0}, {EnvStateDim}, {TRUE}, {TRUE})
    /\ \E eval_per_step \in 1 .. MaxEvalPerStep : \E eval_record_step \in 0 .. MaxRecordStep :
       \E save_gap \in 1 .. MaxSaveGap : \E if_keep_save \in BOOLEAN :
            InitProcessesWith([l \in Learners |-> "send_actor"],
                [l \in Learners |->
                    Evaluator(eval_per_step, eval_record_step, save_gap, if_keep_save)])

NextEvaluator == \E l \in Learners : CallEvaluateAndSave(l)

SpecEvaluator == InitEvaluator /\ [][NextEvaluator]_vars

(* ------------------------------------------------------------------ *)
(* get_rewards_and_steps: one evaluation episode                       *)
(* ------------------------------------------------------------------ *)

MaxEnvSteps == 2        \* env.max_step is None, 0 or one of 1 .. MaxEnvSteps
DefaultMaxStep == 10000 \* evaluator.py:484

\* The environments tried: one with a usable max_step gives rewards 0 and 1,
\* one without gives reward 0 throughout its long episode.
EnvMaxSteps == {None, 0} \cup (1 .. MaxEnvSteps)
EnvRewards(env_max_step) == IF env_max_step \in 1 .. MaxEnvSteps THEN {0, 1} ELSE {0}

\* The info dict of a step: without an 'episode' entry, or, at the end of an
\* episode, with one whose 'l' is given (its 'r' is taken as 0).
NoEpisode == None
EnvInfos(done) == IF done THEN {NoEpisode, 0, MaxEnvSteps + 1} ELSE {NoEpisode}

\* What env.step(action) does: it raises, or returns a tuple of that length.
StepOutcomes == {"raise", "len3", "len4", "len5", "len6"}

\* evaluator.py:480-484
max_step_of(env_max_step) ==
    IF env_max_step = None \/ env_max_step <= 0 THEN DefaultMaxStep ELSE env_max_step

\* A step count that forgets the step of the break.
final_steps_index(info, episode_steps) == IF info # NoEpisode THEN info ELSE episode_steps

\* evaluator.py:599: final_info.get("episode", {}).get("l", episode_steps + 1)
final_steps_of(info, episode_steps) == IF info # NoEpisode THEN info ELSE episode_steps + 1

\* The frame of get_rewards_and_steps(env, actor) at its first line.
NewEpisode(env_max_step) ==
    [env_max_step |-> env_max_step, max_step |-> 0, episode_steps |-> 0,
     cumulative_returns |-> 0, done |-> FALSE, info_dict |-> NoEpisode,
     returned_none |-> FALSE, final_cumulative_returns |-> 0, final_steps |-> 0]

ReturnNone(l) ==
    /\ evaluator' = [evaluator EXCEPT ![l].returned_none = TRUE]
    /\ lpc' = [lpc EXCEPT ![l] = "ep_returned"]

\* Lines 480-486: max_step and the actor's device.
EpisodeStart(l) ==
    /\ lpc[l] = "ep_start"
    /\ evaluator' = [evaluator EXCEPT ![l].max_step = max_step_of(evaluator[l].env_max_step)]
    /\ lpc' = [lpc EXCEPT ![l] = "ep_reset"]
    /\ UNCHANGED <<args, state_dim, li, if_train, policy, states, last_state, updates, saved,
                   worker_pipes, learner_pipe, learners_pipe, eval_msgs, eval_flags,
                   worker_vars, epc, e_if_train, stop_file, joined, hist>>

\* Lines 488-513: env.reset(); an exception ends the call with None.
EpisodeReset(l) ==
    /\ lpc[l] = "ep_reset"
    /\ \E raises \in BOOLEAN :
        /\ IF raises
           THEN ReturnNone(l)
           ELSE /\ lpc' = [lpc EXCEPT ![l] = "ep_action"]
                /\ evaluator' = evaluator
        /\ hist' = [hist EXCEPT ![l].ep_raised = raises]
    /\ UNCHANGED <<args, state_dim, li, if_train, policy, states, last_state, updates, saved,
                   worker_pipes, learner_pipe, learners_pipe, eval_msgs, eval_flags,
                   worker_vars, epc, e_if_train, stop_file, joined>>

\* Lines 521-537: the action for the state; an exception ends the call with None.
EpisodeAction(l) ==
    /\ lpc[l] = "ep_action"
    /\ \E raises \in BOOLEAN :
        /\ IF raises
           THEN ReturnNone(l)
           ELSE /\ lpc' = [lpc EXCEPT ![l] = "ep_step"]
                /\ evaluator' = evaluator
        /\ hist' = [hist EXCEPT ![l].ep_raised = raises]
    /\ UNCHANGED <<args, state_dim, li, if_train, policy, states, last_state, updates, saved,
                   worker_pipes, learner_pipe, learners_pipe, eval_msgs, eval_flags,
                   worker_vars, epc, e_if_train, stop_file, joined>>

\* Lines 539-583, then the for statement of line 521: env.step(action), the
\* unpacking by the length of what it returns, the sum of the rewards, the
\* break on done; without a break the loop goes on while range(max_step)
\* lasts and its else branch (584-590) is taken after that.
EpisodeStep(l) ==
    /\ lpc[l] = "ep_step"
    /\ LET ev == evaluator[l]
       IN  \E out \in StepOutcomes :
           /\ hist' = [hist EXCEPT ![l].step_calls = @ + 1,
                                   ![l].ep_raised = (out = "raise"),
                                   ![l].ep_short = (out = "len3")]
           /\ IF out \in {"raise", "len3"}
              THEN ReturnNone(l)
              ELSE \E reward \in EnvRewards(ev.env_max_step) : \E done \in BOOLEAN :
                   \E info_dict \in EnvInfos(done) :
                    /\ evaluator' = [evaluator EXCEPT
                            ![l].cumulative_returns = @ + reward,
                            ![l].done = done,
                            ![l].info_dict = info_dict,
                            ![l].episode_steps =
                                IF ~done /\ @ + 1 < ev.max_step THEN @ + 1 ELSE @]
                    /\ lpc' = [lpc EXCEPT ![l] =
                            IF ~done /\ ev.episode_steps + 1 < ev.max_step
                            THEN "ep_action" ELSE "ep_return"]
    /\ UNCHANGED <<args, state_dim, li, if_train, policy, states, last_state, updates, saved,
                   worker_pipes, learner_pipe, learners_pipe, eval_msgs, eval_flags,
                   worker_vars, epc, e_if_train, stop_file, joined>>

\* Lines 592-603: the values returned.
EpisodeReturn(l) ==
    /\ lpc[l] = "ep_return"
    /\ LET ev == evaluator[l]
           final_info == IF ev.done THEN ev.info_dict ELSE NoEpisode
       IN  evaluator' = [evaluator EXCEPT
                ![l].final_cumulative_returns =
                    IF final_info # NoEpisode THEN 0 ELSE ev.cumulative_returns,
                ![l].final_steps = final_steps_of(final_info, ev.episode_steps)]
    /\ lpc' = [lpc EXCEPT ![l] = "ep_returned"]
    /\ UNCHANGED <<args, state_dim, li, if_train, policy, states, last_state, updates, saved,
                   worker_pipes, learner_pipe, learners_pipe, eval_msgs, eval_flags,
                   worker_vars, epc, e_if_train, stop_file, joined, hist>>

InitEpisode ==
    /\ InitConfig(0, NumWorkers, NumEnvs, {0}, {EnvStateDim}, {TRUE}, {TRUE})
    /\ \E env_max_step \in EnvMaxSteps :
            InitProcessesWith([l \in Learners |-> "ep_start"],
                              [l \in Learners |-> NewEpisode(env_max_step)])

NextEpisode ==
    \/ \E l \in Learners : EpisodeStart(l)
    \/ \E l \in Learners : EpisodeReset(l)
    \/ \E l \in Learners : EpisodeAction(l)
    \/ \E l \in Learners : EpisodeStep(l)
    \/ \E l \in Learners : EpisodeReturn(l)

SpecEpisode == InitEpisode /\ [][NextEpisode]_vars

(* ================================================================== *)
(* Properties                                                          *)
(* ================================================================== *)

\* The columns [i*E, (i+1)*E) of learner l's buffer.
WorkerColumns(l, i) == [e \in 0 .. (num_envs - 1) |-> states[l].data[num_envs * i + e]]

Exited(l) == lpc[l] \in {"close_workers", "save", "done"}

\* C1: once the gather of a round has received all W reports, for every worker
\* i the buffer columns [i*E, (i+1)*E) hold exactly the batch worker i sent in
\* that round, whatever the order of arrival.
C1_GatherRoundTrip ==
    \A l \in Learners :
        lpc[l] = "update" =>
            \A i \in Workers : WorkerColumns(l, i) = hist[l].batch[i].data

\* What is true of the gather: the columns of worker i hold the batch it sent
\* whenever the Learner's state_dim is the environment's.
GatherRoundTripSameShape ==
    \A l \in Learners :
        (lpc[l] = "update" /\ state_dim[l] = EnvStateDim) =>
            \A i \in Workers : WorkerColumns(l, i) = hist[l].batch[i].data

\* Block b (of width num_envs * num_workers) of learner l's buffer.
Block(l, b) ==
    [c \in 0 .. (num_envs * num_workers - 1) |->
        states[l].data[num_envs * num_workers * b + c]]

\* The local segment learner k gathers in round r (its workers explore with
\* the policy of r - 1 updates).
Segment(k, r) ==
    [c \in 0 .. (num_envs * num_workers - 1) |->
        [j \in 1 .. EnvStateDim |-> <<k, c \div num_envs, c % num_envs, r - 1>>]]

\* C2: for L >= 2 learners, after the ring exchange of a round each learner's
\* buffer contains every learner's local segment of that round exactly once.
C2_RingAllToAll ==
    \A l \in Learners :
        lpc[l] = "update" =>
            \A k \in Learners :
                Cardinality({b \in 0 .. (num_learners - 1) :
                                Block(l, b) = Segment(k, hist[l].round)}) = 1

\* C3: in every Learner round the update (buffer update, then update_net) is
\* called exactly once, and only after the snapshot went to all W workers and
\* W reports were then received in that round.
C3_UpdateOncePerRoundAfterBarrier ==
    \A l \in Learners :
        LET r == hist[l].round
            W == num_workers
        IN  /\ lpc[l] = "send_actor" =>
                /\ updates[l].n = r - 1
                /\ hist[l].actor_sent = W * (r - 1) + li[l]
                /\ hist[l].reports = W * (r - 1)
            /\ lpc[l] = "recv_worker" =>
                /\ updates[l].n = r - 1
                /\ hist[l].actor_sent = W * r
                /\ hist[l].reports = W * (r - 1) + li[l]
            /\ lpc[l] = "update" =>
                /\ updates[l].n = r - 1
                /\ hist[l].actor_sent = W * r
                /\ hist[l].reports = W * r
            /\ (lpc[l] = "eval_poll" \/ Exited(l)) =>
                /\ updates[l].n = r
                /\ hist[l].actor_sent = W * r
                /\ hist[l].reports = W * r

C3_Witness ==
    /\ lpc[0] = "update"
    /\ hist[0].round = 2
    /\ hist[0].reports = 2 * num_workers

\* C4: every flag the Evaluator sends equals (running total <= break_step) and
\* (stop marker absent), the total being the one after the steps of the message
\* just received were added; a total equal to break_step yields true.
C4_FlagValue ==
    [][\A l \in {0} :
        hist'[l].flags_sent = hist[l].flags_sent + 1 =>
            /\ Len(eval_flags'[l]) = Len(eval_flags[l]) + 1
            /\ eval_flags'[l][Len(eval_flags'[l])] =
                    ((hist[l].steps_sum <= args.break_step) /\ ~stop_file)
            /\ evaluator[l].total_step = hist[l].steps_sum]_vars

C4_Witness ==
    /\ hist[0].flags_sent > 0
    /\ epc[0] = "recv"
    /\ e_if_train[0]
    /\ evaluator[0].total_step = break_step
    /\ break_step > 0

\* C5: once the Evaluator has sent false it never sends true afterwards, and a
\* Learner that has read false never reads true later.
C5_FlagMonotone ==
    \A l \in Learners :
        /\ ~hist[l].sent_true_after_false
        /\ ~hist[l].read_true_after_false

\* The flag's condition holds again after a false flag was sent and read.
C5_Witness ==
    /\ hist[0].sent_false
    /\ hist[0].read_false
    /\ ~stop_file
    /\ evaluator[0].total_step <= break_step

\* C6: the Evaluator's running total is the sum of the `steps` of all messages
\* it processed, with or without policy, and a message without policy never
\* triggers evaluation episodes.
C6_TotalIsSumOfSteps ==
    \A l \in Learners :
        /\ evaluator[l].total_step = hist[l].steps_sum
        /\ hist[l].null_episodes = 0

\* (None, steps) then (policy, steps): both counted, one evaluation.
C6_Witness ==
    /\ hist[0].processed = 2
    /\ hist[0].null_processed = 1
    /\ evaluator[0].total_step = 2 * MaxSteps
    /\ evaluator[0].episodes = 1

\* C7: the Learner's evaluator handshake never blocks: it completes whether or
\* not a decision is pending (as long as the scheduler's bound on unanswered
\* messages lets the Learner run at all).
C7_HandshakeNeverBlocks ==
    \A l \in Learners :
        (lpc[l] = "eval_poll" /\ Ahead(l) < MaxAhead) =>
            ENABLED LearnerHandshake(l, MaxAhead)

\* Two rounds done, a third handshake possible, the Evaluator has not moved.
C7_Witness ==
    /\ lpc[0] = "eval_poll"
    /\ hist[0].round = 2
    /\ hist[0].processed = 0
    /\ eval_flags[0] = <<>>
    /\ Ahead(0) < MaxAhead

\* C8: the Evaluator sends exactly one flag per message it processes; the
\* Learner consumes at most one flag per round; every flag sent is consumed
\* exactly once, and all of them before the Learner exits.
C8_FlagsOneToOne ==
    \A l \in Learners :
        /\ hist[l].flags_sent = hist[l].processed - (IF epc[l] = "send" THEN 1 ELSE 0)
        /\ hist[l].flags_read <= updates[l].n
        /\ hist[l].flags_read + Len(eval_flags[l]) = hist[l].flags_sent
        /\ Exited(l) => (eval_flags[l] = <<>> /\ hist[l].flags_read = hist[l].flags_sent)

C8_Witness ==
    /\ lpc[0] = "done"
    /\ hist[0].flags_sent = 3
    /\ hist[0].flags_read = 3

\* C9: the Learner leaves its training loop only in a round in which it read
\* the flag false, and as long as it has read no false flag it starts another
\* round.
C9_OnlyFlagEndsTraining ==
    [][\A l \in {0} :
        /\ (Exited(l)' /\ ~Exited(l)) =>
                (lpc[l] = "eval_poll" /\ eval_flags[l] # <<>> /\ ~Head(eval_flags[l]))
        /\ (lpc[l] = "eval_poll" /\ lpc'[l] # "eval_poll" /\ ~hist'[l].read_false) =>
                (lpc'[l] = "send_actor" /\ hist'[l].round = hist[l].round + 1)]_vars

\* The stop marker exists and the budget is spent, but the only flag read so
\* far was true: the Learner is in a further round.
C9_Witness ==
    /\ lpc[0] = "send_actor"
    /\ hist[0].flags_read > 0
    /\ ~hist[0].read_false
    /\ stop_file
    /\ evaluator[0].total_step > break_step

\* C10: with no process failure, a finite break_step, horizon_len*num_workers
\* > 0 and fair scheduling, the run terminates: the Evaluator sends false, the
\* Learner stops, every Worker and the Evaluator exit, and the join returns.
C10_Terminates ==
    <>(/\ joined
       /\ \A l \in {0} : hist[l].sent_false /\ hist[l].read_false /\ lpc[l] = "done"
                         /\ epc[l] = "closed"
       /\ \A l \in {0} : \A w \in 0 .. (NumWorkers - 1) : wpc[l][w] = "closed")

C10_Witness ==
    /\ joined
    /\ hist[0].sent_false
    /\ num_steps > 0
    /\ \A w \in Workers : wpc[0][w] = "closed"

(* ------------------------------------------------------------------ *)
\* C11: once the Learner has left its loop it sends None exactly once to each
\* of its workers (none before, in send_pipes order while closing), no snapshot
\* is ever sent to a worker after its None, and nothing is written to cwd (the
\* policy, and the replay history when if_save_buffer is set and the buffer has
\* one) before every worker got its None.
C11_SentinelOncePerWorkerThenSave ==
    \A l \in Learners :
        /\ ~hist[l].snapshot_after_sentinel
        /\ \A w \in Workers :
            hist[l].sentinels[w] =
                IF lpc[l] \in {"save", "done"} \/ (lpc[l] = "close_workers" /\ w < li[l])
                THEN 1 ELSE 0
        /\ (lpc[l] = "done") = (saved[l] # {})
        /\ saved[l] \in {{}, SavedFiles}
        /\ ("history" \in saved[l]) => args.if_save_buffer

C11_Witness ==
    \E l \in Learners :
        /\ saved[l] = {"agent", "history"}
        /\ hist[l].actor_sent > num_workers
        /\ \A w \in Workers : hist[l].sentinels[w] = 1

(* ------------------------------------------------------------------ *)
\* C12: a Worker that has received None is closed, whatever it was sent before
\* or is sent afterwards; from then on it stays closed, explores no more, sends
\* no report and reads nothing from its pipe.
C12_SentinelEndsWorker ==
    [][\A l \in Learners : \A w \in Workers :
        /\ hist'[l].got_none[w] => wpc'[l][w] = "closed"
        /\ hist[l].got_none[w] =>
            /\ hist'[l].w_sent[w] = hist[l].w_sent[w]
            /\ hist'[l].w_snapshots[w] = hist[l].w_snapshots[w]
            /\ hist'[l].batch[w] = hist[l].batch[w]
            /\ Len(worker_pipes'[l][w]) >= Len(worker_pipes[l][w])]_vars

\* A worker was closed after a report, with a policy queued behind the None.
C12_Witness ==
    \E l \in Learners : \E w \in Workers :
        /\ hist[l].got_none[w]
        /\ wpc[l][w] = "closed"
        /\ hist[l].w_sent[w] > 0
        /\ worker_pipes[l][w] # <<>>
        /\ Head(worker_pipes[l][w]) # None

(* ------------------------------------------------------------------ *)
\* C13: every worker has sent one report per policy it received (the one it is
\* exploring for is still to come) and none for a None; every report sent is
\* either in its own Learner's pipe or was received by that Learner, once; when
\* the Learner has left its loop none is left unreceived.
ReportsInFlight(l, w) ==
    Cardinality({i \in 1 .. Len(learner_pipe[l]) : learner_pipe[l][i][1] = w})

C14_RoundsDoNotOverlap ==
    \A l \in Learners :
        /\ \A i \in 1 .. Len(learner_pipe[l]) :
            /\ learner_pipe[l][i][2] =
                    ExploreStates(l, learner_pipe[l][i][1], hist[l].round - 1)
            /\ learner_pipe[l][i][3] =
                    ExploreLastState(l, learner_pipe[l][i][1], hist[l].round - 1)
        /\ \A w \in Workers : wpc[l][w] = "explore" => wact[l][w] = hist[l].round - 1
        /\ \A c \in DOMAIN states[l].data : \A k \in DOMAIN states[l].data[c] :
            states[l].data[c][k] # ZERO => states[l].data[c][k][4] <= updates[l].n
        /\ \A c \in DOMAIN last_state[l].data : \A k \in DOMAIN last_state[l].data[c] :
            last_state[l].data[c][k] # ZERO => last_state[l].data[c][k][4] <= updates[l].n

\* Round 2: one report of round 2 is in the buffer, the other is in flight.
C14_Witness ==
    \E l \in Learners :
        /\ hist[l].round = 2
        /\ lpc[l] = "recv_worker"
        /\ li[l] = 1
        /\ Len(learner_pipe[l]) = 1
        /\ \E c \in DOMAIN states[l].data : states[l].data[c][1] = <<l, Head(learner_pipe[l])[1] , 0, 0>>
        /\ \E c \in DOMAIN states[l].data :
                states[l].data[c][1] # ZERO /\ states[l].data[c][1][4] = 1

(* ------------------------------------------------------------------ *)
\* C15: when EvaluatorProc has left run() (after its false flag), no message
\* of the Learner is left unread on evaluator_pipe.
C15_EvaluatorExitsDrained ==
    \A l \in Learners : epc[l] = "closed" => eval_msgs[l] = <<>>

(* ------------------------------------------------------------------ *)
\* C16: a flag that EvaluatorProc computes while the stop marker exists is
\* false, whatever its step total; and no Learner has left its loop, and no
\* Worker has been closed, unless that Learner has received a false flag (the
\* marker itself stops nobody but the Evaluator).
C16_MarkerStopsThroughFlagOnly ==
    /\ [](\A l \in Learners :
            (Exited(l) \/ \E w \in Workers : wpc[l][w] = "closed" \/ hist[l].sentinels[w] > 0)
                => hist[l].read_false)
    /\ [][\A l \in Learners :
            (hist'[l].flags_sent = hist[l].flags_sent + 1 /\ stop_file)
                => /\ eval_flags'[l] = Append(eval_flags[l], FALSE)
                   /\ ~e_if_train'[l]]_vars

\* The marker ended a run that was within its step budget.
C16_Witness ==
    \E l \in Learners :
        /\ stop_file
        /\ evaluator[l].total_step <= break_step
        /\ hist[l].read_false
        /\ lpc[l] = "done"
        /\ \A w \in Workers : wpc[l][w] = "closed"

(* ------------------------------------------------------------------ *)
\* C17: once a payload whose shape is not that of its segment has been
\* received, update_net is not called for that round or any later one, and no
\* column of the buffer holds a payload cut to the buffer's width or a mix of
\* the payload and the column's earlier contents.
C17_ShapeMismatchIsFatal ==
    \A l \in Learners :
        /\ hist[l].mismatched => updates[l].n < hist[l].round
        /\ \A c \in DOMAIN states[l].data :
            (\E k \in DOMAIN states[l].data[c] : states[l].data[c][k] # ZERO) =>
                /\ Len(states[l].data[c]) = EnvStateDim
                /\ \A k \in DOMAIN states[l].data[c] : states[l].data[c][k] # ZERO

(* ------------------------------------------------------------------ *)
\* C18: when a Worker process has died, the others are not all blocked: one
\* of the processes can take a step, or the Orchestrator's joins have
\* returned.
C18_NobodyBlockedForever ==
    (\E l \in Learners : \E w \in Workers : wpc[l][w] = "crashed")
        => (joined \/ ENABLED ProcessStep)

C20_SingleProcessLoop ==
    /\ [](\A l \in Learners :
            LET n == hist[l].round
                done(pcs) == IF lpc[l] \in pcs THEN n - 1 ELSE n
            IN  /\ hist[l].explores = done({"sp_explore"})
                /\ hist[l].buffer_updates = done({"sp_explore", "sp_buffer"})
                /\ updates[l].n = done({"sp_explore", "sp_buffer", "sp_update_net"})
                /\ hist[l].evaluations =
                        done({"sp_explore", "sp_buffer", "sp_update_net", "sp_evaluate"})
                /\ evaluator[l].total_step = hist[l].evaluations * horizon_len
                /\ (lpc[l] \in {"sp_save", "done"} /\ ~hist[l].marker_read) =>
                        n = (break_step \div horizon_len) + 1)
    /\ [][\A l \in Learners :
            (lpc[l] = "sp_test" /\ lpc'[l] # "sp_test") =>
                /\ lpc'[l] \in {"sp_explore", "sp_save"}
                /\ (lpc'[l] = "sp_explore") =
                        (evaluator[l].total_step <= break_step /\ ~stop_file)]_vars

\* break_step = 3, horizon_len = 2: two iterations, no marker seen.
C20_Witness ==
    \E l \in Learners :
        /\ lpc[l] = "done"
        /\ ~hist[l].marker_read
        /\ break_step = 3
        /\ horizon_len = 2
        /\ hist[l].round = 2
        /\ hist[l].evaluations = 2

(* ------------------------------------------------------------------ *)
\* C21: the buffer a learner hands to its n-th update is the same in every
\* run of a configuration: block b holds the segment that learner
\* (l + b) mod L gathered in round n, whatever the interleaving was.
UpdateBlock(l, b) ==
    [c \in 0 .. (num_envs * num_workers - 1) |->
        updates[l].buffer.data[num_envs * num_workers * b + c]]

C21_SameBufferInEveryRun ==
    \A l \in Learners :
        updates[l].n >= 1 =>
            \A b \in 0 .. (num_learners - 1) :
                UpdateBlock(l, b) = Segment((l + b) % num_learners, updates[l].n)

\* The second update of a learner got the buffer of the round.
SecondUpdateAsExpected ==
    \E l \in Learners :
        /\ updates[l].n = 2
        /\ \A b \in 0 .. (num_learners - 1) :
                UpdateBlock(l, b) = Segment((l + b) % num_learners, 2)

(* ------------------------------------------------------------------ *)
\* C22: the number of messages a Learner has sent to its Evaluator without
\* having received their flag stays below a constant.  The code has no such
\* constant: the only limit here is MaxAhead, the point at which the model's
\* scheduler lets the Evaluator run, and whatever MaxAhead is, it is reached.
C22_StalenessBounded ==
    \A l \in Learners : Ahead(l) < MaxAhead

(* ------------------------------------------------------------------ *)
\* C23: a copy that learner k puts on the ring for a peer in some round is
\* received by that peer in its receive of the same round: no learner ever
\* receives a copy that was sent in another round than the one it is in (a
\* copy meant for a third learner, or for a later receive).
C23_ChannelPerOrderedPair ==
    \A l \in Learners : ~hist[l].ring_other_round

(* ------------------------------------------------------------------ *)
\* C24: in the buffer of learner i, block 0 holds only samples of i's own
\* workers and block ((k - i) mod L) only samples that came from peer k's
\* pipe; k |-> (k - i) mod L maps the L learners one-to-one onto the blocks
\* 0 .. L-1, and the receive of shift s reads peer (i + s + 1) mod L into
\* block s + 1.
BlockOf(i, k) == (k - i) % num_learners

C24_BlockPlacement ==
    \A i \in Learners :
        /\ BlockOf(i, i) = 0
        /\ {BlockOf(i, k) : k \in Learners} = 0 .. (num_learners - 1)
        /\ \A s \in 0 .. (num_communications - 1) :
            /\ BlockOf(i, other_learner_id(i, s)) = s + 1
            /\ ring_buf_i(s) = num_envs * num_workers * BlockOf(i, other_learner_id(i, s))
            /\ ring_buf_j(s) = ring_buf_i(s) + num_envs * num_workers
        /\ \A k \in Learners :
            \A c \in 0 .. (num_envs * num_workers - 1) :
                \A f \in DOMAIN Block(i, BlockOf(i, k))[c] :
                    Block(i, BlockOf(i, k))[c][f] # ZERO =>
                        Block(i, BlockOf(i, k))[c][f][1] = k

\* The buffer of a learner other than learner 0 holds a segment of each of
\* its L - 1 >= 2 peers.
C24_Witness ==
    \E i \in Learners \ {0} :
        /\ num_learners >= 3
        /\ lpc[i] = "update"
        /\ \A k \in Learners : Block(i, BlockOf(i, k))[0][1] # ZERO

(* ------------------------------------------------------------------ *)
\* C25: train_agent calls one training function, once: the single-process one
\* when if_single_process is set; otherwise train_agent_multiprocessing exactly
\* when learner_gpu_ids is empty and train_agent_multiprocessing_multi_gpu
\* exactly when it is not; and only the processes of that mode ever run.
SingleProcessPcs == {"sp_explore", "sp_buffer", "sp_update_net", "sp_evaluate", "sp_test", "sp_save"}
MultiprocessingPcs ==
    {"send_actor", "recv_worker", "ring_send", "ring_recv", "update", "eval_poll",
     "close_workers", "save"}

C25_OneTrainingMode ==
    \A l \in Learners :
        LET modes == hist[l].modes
        IN  /\ Len(modes) <= 1
            /\ (lpc[l] = "start") = (modes = <<>>)
            /\ modes # <<>> =>
                /\ (modes[1] = "single_process") = args.if_single_process
                /\ (modes[1] = "multiprocessing") =
                        (~args.if_single_process /\ args.num_gpus = 0)
                /\ (modes[1] = "multiprocessing_multi_gpu") =
                        (~args.if_single_process /\ args.num_gpus # 0)
                /\ lpc[l] \in SingleProcessPcs => modes[1] = "single_process"
                /\ lpc[l] \in MultiprocessingPcs => modes[1] # "single_process"
                /\ (wpc[l][0] # "recv" \/ epc[l] # "recv" \/ hist[l].actor_sent > 0)
                        => modes[1] # "single_process"

\* Single-process training has run although learner_gpu_ids is not empty.
C25_Witness ==
    /\ args.if_single_process
    /\ args.num_gpus = 2
    /\ lpc[0] = "done"
    /\ hist[0].evaluations > 0
    /\ lpc[1] = "unused"

(* ------------------------------------------------------------------ *)
\* C26: when no decision is pending and the Learner continues, its message
\* carries a null in place of the policy, so the Evaluator only adds the steps
\* and runs no evaluation for it.
C26_NullWhenNothingPending ==
    \A l \in Learners : ~hist[l].policy_unpolled

(* ------------------------------------------------------------------ *)
\* The learner whose pipe learner l reads next in its ring receive.
Awaited(l) == other_learner_id(l, li[l])

\* Learner l is blocked in the receive of the ring exchange.
RingBlocked(l) == lpc[l] = "ring_recv" /\ learners_pipe[Awaited(l)] = <<>>

\* A set of learners each blocked in the ring receive on the pipe of another
\* member: only its owner writes to a pipe, so none of them steps again.
RingDeadlock ==
    \E S \in SUBSET Learners :
        /\ S # {}
        /\ \A l \in S : RingBlocked(l) /\ Awaited(l) \in S

\* C27: while all learners are still training, the ring exchange never
\* deadlocks: no learners are blocked on each other in the receive.
C27_RingNeverDeadlocks ==
    (\A l \in Learners : ~Exited(l)) => ~RingDeadlock

(* ------------------------------------------------------------------ *)
\* C28: all learners leave the training loop after the same round, so no
\* learner is blocked in the ring receive on the pipe of a learner that has
\* left the loop.
C28_LearnersStopTogether ==
    \A l \in Learners : \A k \in Learners :
        /\ (Exited(l) /\ Exited(k)) => hist[l].round = hist[k].round
        /\ (RingBlocked(l) /\ Awaited(l) = k) => ~Exited(k)

(* ------------------------------------------------------------------ *)
\* C29: every snapshot on its way to a Worker, every exploration under way
\* and every batch the Learner has gathered in the current round belongs to
\* the snapshot broadcast in this round (the Learner's policy, which changes
\* only in update_net after the gather): all Workers of a Learner use the same
\* snapshot within a round, never an earlier or a later one.
C29_BatchesOfTheRoundsSnapshot ==
    \A l \in Learners : \A w \in Workers :
        /\ \A i \in 1 .. Len(worker_pipes[l][w]) :
                worker_pipes[l][w][i] # None => worker_pipes[l][w][i] = policy[l]
        /\ wpc[l][w] = "explore" => wact[l][w] = policy[l]
        /\ (lpc[l] \in {"recv_worker", "ring_send", "ring_recv", "update"}
                /\ hist[l].reports_from[w] = hist[l].round) =>
            \A e \in 0 .. (num_envs - 1) :
                LET column == states[l].data[num_envs * w + e]
                IN  /\ \A k \in DOMAIN column : column[k] # ZERO => column[k][4] = policy[l]
                    /\ ~hist[l].mismatched =>
                            /\ column # <<>>
                            /\ \A k \in DOMAIN column : column[k] # ZERO

\* The gather of round 2 is complete: every column holds samples of policy 1.
C29_Witness ==
    \E l \in Learners :
        /\ lpc[l] = "update"
        /\ hist[l].round = 2
        /\ policy[l] = 1
        /\ ~hist[l].mismatched
        /\ \A w \in Workers : hist[l].reports_from[w] = 2
        /\ \A c \in DOMAIN states[l].data : \A k \in DOMAIN states[l].data[c] :
                states[l].data[c][k] # ZERO /\ states[l].data[c][k][4] = 1

(* ------------------------------------------------------------------ *)
\* C30: while the Learner sends the sentinels (and afterwards), its
\* learner_pipe is empty and every Worker it owns is waiting in recv(): one
\* that has not been sent its sentinel waits on an empty pipe, the others
\* have the sentinel before them or have left their loop on it.
C30_SentinelsFindWorkersIdle ==
    \A l \in Learners :
        Exited(l) =>
            /\ learner_pipe[l] = <<>>
            /\ \A w \in Workers :
                IF lpc[l] = "close_workers" /\ w >= li[l]
                THEN wpc[l][w] = "recv" /\ worker_pipes[l][w] = <<>>
                ELSE \/ wpc[l][w] = "recv" /\ worker_pipes[l][w] = <<None>>
                     \/ wpc[l][w] = "closed" /\ worker_pipes[l][w] = <<>>

\* After two rounds the Learner has sent the first sentinel and is about to
\* send the second.
C30_Witness ==
    \E l \in Learners :
        /\ lpc[l] = "close_workers"
        /\ li[l] = 1
        /\ hist[l].round = 2
        /\ hist[l].reports = 2 * num_workers
        /\ wpc[l][1] = "recv"

(* ------------------------------------------------------------------ *)
\* C31: a Learner that has left its loop has completed at least two rounds
\* (two policy updates), whatever the budget and the stop marker: the first
\* handshake finds no flag, and a false flag is read in round 2 at the
\* earliest.
C31_AtLeastTwoRounds ==
    \A l \in Learners :
        /\ hist[l].round = 1 => eval_flags[l] = <<>> /\ hist[l].flags_read = 0
        /\ (Exited(l) \/ hist[l].read_false \/ ~if_train[l]) =>
                /\ hist[l].round >= 2
                /\ policy[l] >= 2
                /\ updates[l].n >= 2

\* The budget is used up by the first message and the stop marker exists: the
\* Learner has left after exactly two updates.
C31_Witness ==
    \E l \in Learners :
        /\ break_step = 0
        /\ stop_file
        /\ lpc[l] = "close_workers"
        /\ hist[l].round = 2
        /\ updates[l].n = 2

(* ------------------------------------------------------------------ *)
\* C32: the Evaluator's total is horizon_len * num_workers times the number of
\* messages it has processed and at most horizon_len * num_workers times the
\* number of rounds the Learner has completed; the Learner has sent one
\* message per completed round, less the round in which it read false.
RoundsCompleted(l) == IF Exited(l) \/ lpc[l] = "eval_poll" THEN hist[l].round ELSE hist[l].round - 1

C32_TotalCountsRounds ==
    \A l \in Learners :
        /\ evaluator[l].total_step = args.horizon_len * args.num_workers * hist[l].processed
        /\ evaluator[l].total_step <= args.horizon_len * args.num_workers * RoundsCompleted(l)
        /\ \A i \in 1 .. Len(eval_msgs[l]) :
                eval_msgs[l][i][2] = args.horizon_len * args.num_workers
        /\ hist[l].msgs =
                IF lpc[l] = "eval_poll" THEN RoundsCompleted(l) - 1
                ELSE IF Exited(l) THEN RoundsCompleted(l) - 1
                ELSE RoundsCompleted(l)
        /\ Exited(l) => hist[l].read_false

\* The Learner has left after three rounds and the Evaluator has counted the
\* two messages it sent.
C32_Witness ==
    \E l \in Learners :
        /\ Exited(l)
        /\ hist[l].round = 3
        /\ hist[l].msgs = 2
        /\ hist[l].processed = 2
        /\ evaluator[l].total_step = 2 * args.horizon_len * args.num_workers

(* ------------------------------------------------------------------ *)
\* C33: without a stop marker and with S = horizon_len * num_workers steps per
\* message, the Evaluator has answered true to every message up to
\* break_step \div S, sends false for message break_step \div S + 1, and its
\* total T then stays at S * (break_step \div S + 1), with
\* T - S <= break_step < T, whatever the Learner has sent since.
C33_FalseAfterBudget ==
    \A l \in Learners :
        LET S == args.horizon_len * args.num_workers
            T == evaluator[l].total_step
            last == break_step \div S + 1
        IN  /\ ~stop_file
            /\ hist[l].processed <= last
            /\ hist[l].sent_false =>
                    /\ hist[l].processed = last
                    /\ hist[l].flags_sent = last
                    /\ T = S * last
                    /\ T - S <= break_step
                    /\ break_step < T
            /\ (~hist[l].sent_false /\ epc[l] = "recv") => hist[l].processed < last
            /\ (~hist[l].sent_false /\ epc[l] = "send") => hist[l].flags_sent = hist[l].processed - 1
            /\ epc[l] \in {"drain", "drain_inner", "closed"} => hist[l].sent_false

\* break_step = 3 and S = 2: false was sent for the second message, and the
\* Learner's third message changes nothing.
C33_Witness ==
    \E l \in Learners :
        /\ break_step = 3
        /\ args.horizon_len * args.num_workers = 2
        /\ hist[l].sent_false
        /\ hist[l].processed = 2
        /\ hist[l].msgs = 3
        /\ evaluator[l].total_step = 4
        /\ epc[l] = "closed"

BestCheckpoints(ev) == {c \in ev.checkpoints : c[1] = "best"}

C35_BestReturn ==
    /\ [](\A l \in Learners :
            /\ hist[l].avg_rs = {} => evaluator[l].max_r = NegInf
            /\ hist[l].avg_rs # {} =>
                    /\ evaluator[l].max_r \in hist[l].avg_rs
                    /\ \A r \in hist[l].avg_rs : r <= evaluator[l].max_r
            /\ BestCheckpoints(evaluator[l]) # {} => evaluator[l].if_keep_save)
    /\ [][\A l \in Learners :
            /\ evaluator'[l].max_r >= evaluator[l].max_r
            /\ BestCheckpoints(evaluator'[l]) # BestCheckpoints(evaluator[l]) =>
                    /\ hist'[l].evaluations = hist[l].evaluations + 1
                    /\ hist'[l].last_avg_r > evaluator[l].max_r
                    /\ evaluator[l].if_keep_save]_vars

\* Two successful evaluations, the second with a smaller return: max_r is the
\* first one's and only the first wrote a best-return checkpoint.
C35_Witness ==
    \E l \in Learners :
        /\ evaluator[l].if_keep_save
        /\ hist[l].evaluations = 2
        /\ hist[l].avg_rs = {0, 1}
        /\ hist[l].last_avg_r = 0
        /\ evaluator[l].max_r = 1
        /\ Cardinality(BestCheckpoints(evaluator[l])) = 1

(* ------------------------------------------------------------------ *)
\* C36: with if_keep_save every evaluation adds one to save_counter; the
\* periodic checkpoint is written exactly by an evaluation that did not beat
\* the best return and found save_counter >= save_gap, and save_counter is
\* then 0; a best-return checkpoint leaves the count as it is.
PeriodicCheckpoints(ev) == {c \in ev.checkpoints : c[1] = "periodic"}

C36_PeriodicCheckpoint ==
    [][\A l \in Learners :
        LET ev == evaluator[l]
            evaluated == hist'[l].evaluations = hist[l].evaluations + 1
            beat == hist'[l].last_avg_r > ev.max_r
            counter == ev.save_counter + 1
            periodic == PeriodicCheckpoints(evaluator'[l]) # PeriodicCheckpoints(ev)
        IN  IF evaluated /\ ev.if_keep_save
            THEN /\ periodic <=> (~beat /\ counter >= ev.save_gap)
                 /\ periodic =>
                        /\ evaluator'[l].save_counter = 0
                        /\ evaluator'[l].checkpoints =
                                ev.checkpoints \cup {<<"periodic", evaluator'[l].total_step>>}
                 /\ ~periodic => evaluator'[l].save_counter = counter
                 /\ beat => BestCheckpoints(evaluator'[l]) # BestCheckpoints(ev)
            ELSE /\ ~periodic
                 /\ evaluator'[l].save_counter = ev.save_counter]_vars

\* save_gap = 2: the first evaluation wrote the best-return checkpoint and
\* left the count at 1, the second did not beat it and wrote the periodic one.
C36_Witness ==
    \E l \in Learners :
        /\ evaluator[l].if_keep_save
        /\ evaluator[l].save_gap = 2
        /\ hist[l].evaluations = 2
        /\ Cardinality(BestCheckpoints(evaluator[l])) = 1
        /\ Cardinality(PeriodicCheckpoints(evaluator[l])) = 1
        /\ evaluator[l].save_counter = 0

(* ------------------------------------------------------------------ *)
\* C37: a call of evaluate_and_save that returns early (the new total_step is
\* below eval_record_step, or below eval_step_counter + eval_per_step) adds
\* steps to total_step and changes nothing else of the Evaluator.
C37_EarlyReturnFrame ==
    [][\A l \in Learners :
        LET ev == evaluator[l]
            total == hist'[l].steps_sum
        IN  (/\ hist'[l].processed = hist[l].processed + 1
             /\ (total < ev.recorder_step \/ total < ev.eval_step_counter + ev.eval_per_step))
            => /\ evaluator'[l] = [ev EXCEPT !.total_step = total]
               /\ evaluator'[l].eval_step_counter = ev.eval_step_counter
               /\ evaluator'[l].recorder = ev.recorder
               /\ evaluator'[l].max_r = ev.max_r
               /\ evaluator'[l].save_counter = ev.save_counter
               /\ evaluator'[l].checkpoints = ev.checkpoints]_vars

\* An evaluation at total_step 0, then a call with one step when
\* eval_per_step is 2: the call returned early.
C37_Witness ==
    \E l \in Learners :
        /\ evaluator[l].eval_per_step = 2
        /\ hist[l].processed = 2
        /\ hist[l].evaluations = 1
        /\ evaluator[l].total_step = 1
        /\ evaluator[l].eval_step_counter = 0
        /\ Len(evaluator[l].recorder) = 1
        /\ evaluator[l].save_counter = 1

(* ------------------------------------------------------------------ *)
\* C38: an evaluation without a valid episode (the episode routine returned
\* None or an empty result) appends nothing to the recorder, leaves max_r
\* alone and writes no best-return checkpoint, but moves eval_step_counter to
\* total_step: the next calls do not evaluate until eval_per_step more steps
\* have come.
C38_FailedEvaluation ==
    [][\A l \in Learners :
        LET ev == evaluator[l]
            total == hist'[l].steps_sum
            evaluated == hist'[l].evaluations = hist[l].evaluations + 1
        IN  /\ (evaluated /\ hist'[l].last_failed) =>
                /\ evaluator'[l].recorder = ev.recorder
                /\ evaluator'[l].max_r = ev.max_r
                /\ BestCheckpoints(evaluator'[l]) = BestCheckpoints(ev)
                /\ evaluator'[l].eval_step_counter = total
            /\ (hist[l].last_failed /\ hist[l].evaluations > 0
                    /\ total < hist[l].last_eval_step + ev.eval_per_step) => ~evaluated]_vars

\* A failed evaluation at total_step 2, then a call one step later with
\* eval_per_step = 2: nothing is recorded and the evaluation is not retried.
C38_Witness ==
    \E l \in Learners :
        /\ evaluator[l].eval_per_step = 2
        /\ hist[l].processed = 2
        /\ hist[l].evaluations = 1
        /\ hist[l].last_failed
        /\ evaluator[l].eval_step_counter = 2
        /\ evaluator[l].total_step = 3
        /\ evaluator[l].recorder = <<>>
        /\ evaluator[l].max_r = NegInf
        /\ BestCheckpoints(evaluator[l]) = {}

(* ------------------------------------------------------------------ *)
\* C39: get_rewards_and_steps makes at most max_step calls of env.step and
\* never waits; when reset, the action selection or a step raised it returns
\* None; otherwise, without 'episode' info, it returns as step count the
\* number of env.step calls made, which is between 1 and max_step.
EpisodeInfoUsed(l) == evaluator[l].done /\ evaluator[l].info_dict # NoEpisode

EpisodeTerminates(l) ==
    /\ hist[l].step_calls <= max_step_of(evaluator[l].env_max_step)
    /\ lpc[l] # "ep_returned" => ENABLED NextEpisode

StepsAreCalls(l) ==
    /\ ~evaluator[l].returned_none
    /\ evaluator[l].final_steps = hist[l].step_calls
    /\ evaluator[l].final_steps >= 1
    /\ evaluator[l].final_steps <= max_step_of(evaluator[l].env_max_step)

C39_EpisodeResult ==
    \A l \in Learners :
        /\ EpisodeTerminates(l)
        /\ lpc[l] = "ep_returned" =>
            /\ hist[l].ep_raised => evaluator[l].returned_none
            /\ (~hist[l].ep_raised /\ ~EpisodeInfoUsed(l)) => StepsAreCalls(l)

\* C39, amended: None is also what get_rewards_and_steps returns when
\* env.step returns fewer than four values; the step count is the number of
\* env.step calls when nothing raised and every step returned at least four.
C39_EpisodeResultAmended ==
    \A l \in Learners :
        /\ EpisodeTerminates(l)
        /\ lpc[l] = "ep_returned" =>
            /\ (hist[l].ep_raised \/ hist[l].ep_short) => evaluator[l].returned_none
            /\ (~hist[l].ep_raised /\ ~hist[l].ep_short /\ ~EpisodeInfoUsed(l)) =>
                    StepsAreCalls(l)

\* An environment without max_step whose episode never ends: the call
\* returns after DefaultMaxStep steps.
C39_Witness ==
    \E l \in Learners :
        /\ lpc[l] = "ep_returned"
        /\ evaluator[l].env_max_step = None
        /\ ~evaluator[l].returned_none
        /\ ~evaluator[l].done
        /\ hist[l].step_calls = DefaultMaxStep
        /\ evaluator[l].final_steps = DefaultMaxStep

====
